---- MODULE Spec2Model ----
(***************************************************************************)
(* Disaster-event dashboard (docs/script.js, newest revision) and the      *)
(* crawler rules its notes document.                                       *)
(*                                                                         *)
(* Strings whose characters matter (titles, identifiers, category names)   *)
(* are sequences of one-character strings.  Coordinates are integers in    *)
(* units of 0.00001 degree.  Times are integers in days.                   *)
(***************************************************************************)
EXTENDS Integers, Sequences, FiniteSets, TLC

VARIABLES
    mainFile,        \* contents of ./data/events.json on the server
    pastFile,        \* contents of ./data/past_events.json on the server
    testFile,        \* contents of ./test_data.json on the server
    pc,              \* where the running loadDisasterData invocation is suspended
    mainData,        \* local of loadDisasterData
    pastData,        \* local of loadDisasterData
    eventMap,        \* local of loadDisasterData, Map in insertion order
    deduped,         \* local of loadDisasterData
    disasterEvents,  \* global
    lastUpdateTime,  \* global
    errorHidden,     \* #errorMessage has class "hidden"
    dataFrom,        \* history: which path last assigned disasterEvents
    rawCategory,     \* crawler: the raw category string handed to the normalizer
    category,        \* crawler: the normalizer's result, "pending" before the call
    filteredData,    \* global
    categoryFilter,  \* value of the #categoryFilter select
    statsClusters,   \* local clusters of the last updateStats
    riskPassClusters,      \* local clusters of the last checkRiskAlerts
    riskAlertHidden,       \* #riskAlert has class "hidden"
    riskMessage,           \* what #riskMessage reports
    riskAnimationMarkers,  \* global
    map,             \* global: TRUE once initMap created the Leaflet map
    endDateCutsNow,  \* the instant of the last load lies after the end of the day
                     \* (local time) that populateFilters wrote into #endDate
    currentEvents,         \* merge step: the persisted segment of current events
    pastEvents,            \* merge step: the persisted segment of past events
    today,           \* merge step: the day of the clock
    runDay,          \* merge step: the day of the last run
    sortedData,      \* global
    currentSort,     \* global: [column, direction], "null" for null
    sliderValue,     \* value of the #timeSlider input
    dateInputsSet,   \* #startDate and #endDate hold the range populateFilters wrote
    isPlaying,       \* global
    animationInterval,  \* global: the id setInterval returned, 0 for null
    timers,          \* the ids of the interval timers that are active in the page
    currentTimeIndex,   \* global
    animationSpeed,  \* global
    calls            \* overlapping loadDisasterData invocations in the order they
                     \* started: [pc, mainData, deduped] of each

loaderVars == <<mainFile, pastFile, testFile, pc, mainData, pastData, eventMap, deduped,
                disasterEvents, lastUpdateTime, errorHidden, dataFrom>>
crawlerVars == <<rawCategory, category>>
viewVars == <<filteredData, categoryFilter, statsClusters, riskPassClusters, riskAlertHidden,
              riskMessage, riskAnimationMarkers, map, endDateCutsNow>>
mergeVars == <<currentEvents, pastEvents, today, runDay>>
tableVars == <<sortedData, currentSort, sliderValue, dateInputsSet>>
animVars == <<isPlaying, animationInterval, timers, currentTimeIndex, animationSpeed>>
overlapVars == <<calls>>

(***************************************************************************)
(* Bounds                                                                  *)
(***************************************************************************)
MaxPast == 1
MaxMain == 2
MaxTest == 1
MaxParts == 3
MaxGeo == 5
MaxExtra == 1
MaxScrape == 2
MaxDays == 2
MaxView == 2
MaxChain == 4
MaxCalls == 2

(***************************************************************************)
(* JavaScript strings                                                      *)
(***************************************************************************)
UpperChars == <<"A", "B", "C", "D", "E", "F", "G", "H", "I", "J", "K", "L", "M", "N", "O", "P", "Q", "R", "S", "T", "U", "V", "W", "X", "Y", "Z">>
LowerChars == <<"a", "b", "c", "d", "e", "f", "g", "h", "i", "j", "k", "l", "m", "n", "o", "p", "q", "r", "s", "t", "u", "v", "w", "x", "y", "z">>
Digits == {"0", "1", "2", "3", "4", "5", "6", "7", "8", "9"}

IsSpace(c) == c \in {" ", "\t"}

ToLowerChar(c) ==
    IF \E i \in 1..Len(UpperChars) : UpperChars[i] = c
    THEN LowerChars[CHOOSE i \in 1..Len(UpperChars) : UpperChars[i] = c]
    ELSE c

\* \w
IsWordChar(c) ==
    \/ \E i \in 1..Len(UpperChars) : UpperChars[i] = c \/ LowerChars[i] = c
    \/ c \in Digits
    \/ c = "_"

RECURSIVE TrimStart(_)
TrimStart(s) ==
    IF s = <<>> THEN <<>>
    ELSE IF IsSpace(Head(s)) THEN TrimStart(Tail(s)) ELSE s

RECURSIVE TrimEnd(_)
TrimEnd(s) ==
    IF s = <<>> THEN <<>>
    ELSE IF IsSpace(s[Len(s)]) THEN TrimEnd(SubSeq(s, 1, Len(s) - 1)) ELSE s

\* String.prototype.trim
Trim(s) == TrimEnd(TrimStart(s))

\* String.prototype.toLowerCase
ToLowerCase(s) == [i \in 1..Len(s) |-> ToLowerChar(s[i])]

\* .replace(/[^\w\s]/g, '')
RECURSIVE StripPunct(_)
StripPunct(s) ==
    IF s = <<>> THEN <<>>
    ELSE IF IsWordChar(Head(s)) \/ IsSpace(Head(s))
         THEN <<Head(s)>> \o StripPunct(Tail(s))
         ELSE StripPunct(Tail(s))

\* .replace(/\s+/g, ' ')
RECURSIVE CollapseSpace(_)
CollapseSpace(s) ==
    IF s = <<>> THEN <<>>
    ELSE IF IsSpace(Head(s))
         THEN <<" ">> \o CollapseSpace(TrimStart(s))
         ELSE <<Head(s)>> \o CollapseSpace(Tail(s))

\* (event.event_title || '').trim().toLowerCase().replace(...).replace(...)
NormTitle(t) == CollapseSpace(StripPunct(ToLowerCase(Trim(t))))

(***************************************************************************)
(* JavaScript numbers and dates                                            *)
(***************************************************************************)
Num(v) == [kind |-> "num", v |-> v]
NaN == [kind |-> "nan", v |-> 0]
Infinity == [kind |-> "inf", v |-> 0]

\* Raw JSON coordinate values
RawNull == [kind |-> "null", v |-> 0]       \* null or absent
RawEmpty == [kind |-> "empty", v |-> 0]     \* ""
RawText == [kind |-> "text", v |-> 0]       \* "abc": no numeric prefix
RawInf == [kind |-> "inf", v |-> 0]         \* "Infinity"
RawNum(v) == [kind |-> "numstr", v |-> v]   \* "12.3"

\* parseFloat applied to a raw value
ParseFloat(raw) ==
    CASE raw.kind = "numstr" -> Num(raw.v)
      [] raw.kind = "inf" -> Infinity
      [] OTHER -> NaN

\* JavaScript truthiness of a raw value (all raw values are strings or null)
Truthy(raw) == raw.kind \notin {"null", "empty"}

\* Number.prototype.toFixed(4); no modelled value sits on a rounding tie
ToFixed4(f) ==
    CASE f.kind = "nan" -> [txt |-> "NaN", neg |-> FALSE, mag |-> 0]
      [] f.kind = "inf" -> [txt |-> "Infinity", neg |-> FALSE, mag |-> 0]
      [] OTHER -> [txt |-> "digits", neg |-> f.v < 0,
                   mag |-> ((IF f.v < 0 THEN -f.v ELSE f.v) + 5) \div 10]

\* Raw event_date_utc values
DateIso(y, m, d) == [form |-> "iso", y |-> y, m |-> m, d |-> d]    \* "2025-09-01T00:00:00Z"
DateDbl(y, m, d) == [form |-> "dbl", y |-> y, m |-> m, d |-> d]    \* "2025-09-01T00:00:00+00:00Z"
DateBad == [form |-> "bad", y |-> 0, m |-> 0, d |-> 0]             \* "unknown"
DateAbsent == [form |-> "absent", y |-> 0, m |-> 0, d |-> 0]       \* undefined or ""

\* (event.event_date_utc || '').substring(0, 10)
DatePrefix(ds) ==
    CASE ds.form \in {"iso", "dbl"} -> [txt |-> "ymd", y |-> ds.y, m |-> ds.m, d |-> ds.d]
      [] ds.form = "bad" -> [txt |-> "unknown", y |-> 0, m |-> 0, d |-> 0]
      [] OTHER -> [txt |-> "", y |-> 0, m |-> 0, d |-> 0]

\* dateString.replace('+00:00Z', 'Z') when dateString includes '+00:00Z'
RepairDate(ds) == IF ds.form = "dbl" THEN [ds EXCEPT !.form = "iso"] ELSE ds

\* Days since 2000-01-01 of the first day of each month, and of a date
DaysBeforeMonth == <<0, 31, 59, 90, 120, 151, 181, 212, 243, 273, 304, 334>>
DayNumber(y, m, d) ==
    (y - 2000) * 365 + ((y - 2000) + 3) \div 4 + DaysBeforeMonth[m]
    + (IF y % 4 = 0 /\ m > 2 THEN 1 ELSE 0) + (d - 1)

\* new Date(dateString).getTime(), in days
ParseDate(ds) == IF ds.form = "iso" THEN Num(DayNumber(ds.y, ds.m, ds.d)) ELSE NaN

\* new Date(): the current time, in days (2025-10-01)
Now == 9405

\* Raw crawled_at values
CrawlAbsent == [kind |-> "absent", t |-> 0]
CrawlBad == [kind |-> "bad", t |-> 0]
CrawlAt(t) == [kind |-> "time", t |-> t]

\* new Date(event.crawled_at || 0)
CrawlDate(c) ==
    CASE c.kind = "time" -> Num(c.t)
      [] c.kind = "bad" -> NaN
      [] OTHER -> Num(0)

\* a > b on two Dates: false when either is invalid
DateGT(a, b) == a.kind = "num" /\ b.kind = "num" /\ a.v > b.v

(***************************************************************************)
(* loadDisasterData: merge, deduplicate, sanitize                          *)
(***************************************************************************)
MapHas(m, id) == \E i \in 1..Len(m) : m[i].event_id = id
MapGet(m, id) == m[CHOOSE i \in 1..Len(m) : m[i].event_id = id]
\* mutant: an array push instead of a keyed Map
MapSetAppend(m, ev) == Append(m, ev)

\* Map.prototype.set keeps the position of an existing key
MapSet(m, ev) ==
    IF MapHas(m, ev.event_id)
    THEN [i \in 1..Len(m) |-> IF m[i].event_id = ev.event_id THEN ev ELSE m[i]]
    ELSE Append(m, ev)

\* mutant: the crawled_at comparison is dropped, the last occurrence wins
IdentityStepLastWins(m, ev) ==
    IF ev.event_id # <<>> /\ Trim(ev.event_id) # <<>> THEN MapSet(m, ev) ELSE m

\* the body of allEvents.forEach in the identity pass
IdentityStep(m, ev) ==
    IF ev.event_id # <<>> /\ Trim(ev.event_id) # <<>>
    THEN IF \/ ~MapHas(m, ev.event_id)
            \/ DateGT(CrawlDate(ev.crawled_at), CrawlDate(MapGet(m, ev.event_id).crawled_at))
         THEN MapSet(m, ev)
         ELSE m
    ELSE m

\* allEvents.forEach over events, in order; the two halves one after the other
RECURSIVE IdentityFold(_, _)
IdentityFold(m, events) ==
    IF events = <<>> THEN m
    ELSE IF Len(events) = 1 THEN IdentityStep(m, events[1])
    ELSE LET half == IdentityFold(m, SubSeq(events, 1, Len(events) \div 2))
         IN IF Len(half) >= Len(m)             \* the Map never loses a key
            THEN IdentityFold(half, SubSeq(events, Len(events) \div 2 + 1, Len(events)))
            ELSE half

IdentityPass(events) == IdentityFold(<<>>, events)

\* Python round(): to the nearest integer, ties to the even one; here of n / d
RoundHalfEven(n, d) ==
    LET q == n \div d
        r == n % d
    IN IF 2 * r < d THEN q
       ELSE IF 2 * r > d THEN q + 1
       ELSE IF q % 2 = 0 THEN q ELSE q + 1

\* the crawler's fire rule: round(lat_f * 5) / 5, as a count of 0.2-degree steps
FireCoordBucket(v) == RoundHalfEven(v * 5, 100000)

\* the crawler's fire rule: f"{date_obj.year}-{date_obj.month:02d}"
FireDateBucket(ds) == <<ds.y, ds.m>>

Fire == "Fire in built environment"

\* mutant: the crawler's coarse fire key used by the loader's content pass
ContentKeyFireCoarse(ev) ==
    IF /\ ev.event_category = Fire
       /\ ev.latitude.kind = "numstr"
       /\ ev.longitude.kind = "numstr"
       /\ ev.event_date_utc.form = "iso"
    THEN <<NormTitle(ev.event_title),
           [txt |-> "ym", y |-> FireDateBucket(ev.event_date_utc)[1],
            m |-> FireDateBucket(ev.event_date_utc)[2], d |-> 0],
           [txt |-> "bucket", neg |-> FALSE, mag |-> FireCoordBucket(ev.latitude.v)],
           [txt |-> "bucket", neg |-> FALSE, mag |-> FireCoordBucket(ev.longitude.v)]>>
    ELSE <<NormTitle(ev.event_title),
           DatePrefix(ev.event_date_utc),
           ToFixed4(IF Truthy(ev.latitude) THEN ParseFloat(ev.latitude) ELSE Num(0)),
           ToFixed4(IF Truthy(ev.longitude) THEN ParseFloat(ev.longitude) ELSE Num(0))>>

\* `${title}|${date}|${lat}|${lon}`
ContentKey(ev) ==
    <<NormTitle(ev.event_title),
      DatePrefix(ev.event_date_utc),
      ToFixed4(IF Truthy(ev.latitude) THEN ParseFloat(ev.latitude) ELSE Num(0)),
      ToFixed4(IF Truthy(ev.longitude) THEN ParseFloat(ev.longitude) ELSE Num(0))>>

\* mutant: seenKeys is never consulted
ContentStepKeepAll(st, ev) ==
    IF NormTitle(ev.event_title) # <<>>
    THEN [seen |-> st.seen \cup {ContentKey(ev)}, out |-> Append(st.out, ev)]
    ELSE st

\* mutant: the "&& title" guard is missing
ContentStepNoTitleGuard(st, ev) ==
    IF ContentKey(ev) \notin st.seen
    THEN [seen |-> st.seen \cup {ContentKey(ev)}, out |-> Append(st.out, ev)]
    ELSE st

\* the body of the for-of loop of the content pass; st = [seen, out]
ContentStep(st, ev) ==
    IF ContentKey(ev) \notin st.seen /\ NormTitle(ev.event_title) # <<>>
    THEN [seen |-> st.seen \cup {ContentKey(ev)}, out |-> Append(st.out, ev)]
    ELSE st

\* the for-of loop over events, in order; the two halves one after the other
RECURSIVE ContentFold(_, _)
ContentFold(st, events) ==
    IF events = <<>> THEN st
    ELSE IF Len(events) = 1 THEN ContentStep(st, events[1])
    ELSE LET half == ContentFold(st, SubSeq(events, 1, Len(events) \div 2))
         IN IF Len(half.out) >= Len(st.out)    \* finalEvents only grows
            THEN ContentFold(half, SubSeq(events, Len(events) \div 2 + 1, Len(events)))
            ELSE half

\* mutant: the loop stops before the last entry
ContentPassStopsEarly(events) ==
    ContentFold([seen |-> {}, out |-> <<>>],
                IF events = <<>> THEN <<>> ELSE SubSeq(events, 1, Len(events) - 1)).out

\* mutant: the loop starts at the second entry
ContentPassSkipFirst(events) ==
    ContentFold([seen |-> {}, out |-> <<>>], IF events = <<>> THEN <<>> ELSE Tail(events)).out

ContentPass(events) == ContentFold([seen |-> {}, out |-> <<>>], events).out

\* one coordinate of the preprocessing map
SanitizeCoord(raw) ==
    IF raw.kind \in {"null", "empty"} THEN Num(0)
    ELSE IF ParseFloat(raw).kind = "nan" THEN Num(0) ELSE ParseFloat(raw)

HasValidCoords(lat, lon) ==
    lat # Num(0) /\ lon # Num(0) /\ lat.kind # "nan" /\ lon.kind # "nan"

\* the crawler's target_categories
CanonicalCategories ==
    {"War", "Environment pollution", "Industrial explosion", "Surroundings explosion",
     "Fire in built environment", "Earthquake", "Landslide", "Volcanic eruption", "Flood"}

\* mutant: the "? new Date() :" default is missing, an invalid Date stays
SanitizeKeepInvalidDate(ev) ==
    [event_id |-> ev.event_id,
     event_title |-> ev.event_title,
     event_category |-> ev.event_category,
     event_date_utc |-> ev.event_date_utc,
     crawled_at |-> ev.crawled_at,
     latitude |-> SanitizeCoord(ev.latitude),
     longitude |-> SanitizeCoord(ev.longitude),
     event_date |-> ParseDate(RepairDate(ev.event_date_utc)),
     hasValidCoords |-> HasValidCoords(SanitizeCoord(ev.latitude), SanitizeCoord(ev.longitude))]

\* mutant: the loader maps every category outside the canonical set to Unknown
SanitizeNormalizing(ev) ==
    [event_id |-> ev.event_id,
     event_title |-> ev.event_title,
     event_category |-> IF ev.event_category \in CanonicalCategories
                        THEN ev.event_category ELSE "Unknown",
     event_date_utc |-> ev.event_date_utc,
     crawled_at |-> ev.crawled_at,
     latitude |-> SanitizeCoord(ev.latitude),
     longitude |-> SanitizeCoord(ev.longitude),
     event_date |-> IF ParseDate(RepairDate(ev.event_date_utc)).kind = "nan"
                    THEN Num(Now)
                    ELSE ParseDate(RepairDate(ev.event_date_utc)),
     hasValidCoords |-> HasValidCoords(SanitizeCoord(ev.latitude), SanitizeCoord(ev.longitude))]

\* the object returned by the preprocessing map
Sanitize(ev) ==
    [event_id |-> ev.event_id,
     event_title |-> ev.event_title,
     event_category |-> ev.event_category,
     event_date_utc |-> ev.event_date_utc,
     crawled_at |-> ev.crawled_at,
     latitude |-> SanitizeCoord(ev.latitude),
     longitude |-> SanitizeCoord(ev.longitude),
     event_date |-> IF ParseDate(RepairDate(ev.event_date_utc)).kind = "nan"
                    THEN Num(Now)
                    ELSE ParseDate(RepairDate(ev.event_date_utc)),
     hasValidCoords |-> HasValidCoords(SanitizeCoord(ev.latitude), SanitizeCoord(ev.longitude))]

\* the predicate of the .filter after the map
IsValidEvent(e) == e.event_title # <<>> /\ Trim(e.event_title) # <<>>

SelectSeqBy(s, keep) == SelectSeq(s, LAMBDA x : keep[x])

\* a - b on two Dates; a NaN result makes the comparator treat them as equal
DateDiff(a, b) == IF a.kind = "num" /\ b.kind = "num" THEN a.v - b.v ELSE 0

\* Array.prototype.sort((a, b) => a.event_date - b.event_date): stable
\* e goes right after the last element that does not compare greater than it
InsertByDate(sorted, e) ==
    LET notAfter == {i \in 1..Len(sorted) :
                        DateDiff(sorted[i].event_date, e.event_date) <= 0}
        p == IF notAfter = {} THEN 0
             ELSE CHOOSE i \in notAfter : \A j \in notAfter : j <= i
    IN SubSeq(sorted, 1, p) \o <<e>> \o SubSeq(sorted, p + 1, Len(sorted))

RECURSIVE SortFold(_, _)
SortFold(acc, s) ==
    IF s = <<>> THEN acc
    ELSE IF Len(s) = 1 THEN InsertByDate(acc, s[1])
    ELSE LET half == SortFold(acc, SubSeq(s, 1, Len(s) \div 2))
         IN IF Len(half) >= Len(acc)
            THEN SortFold(half, SubSeq(s, Len(s) \div 2 + 1, Len(s)))
            ELSE half

SortByDate(s) == SortFold(<<>>, s)

\* mutant: the older revision's map and filter, which drop unparseable coordinates
PreprocessDropBadCoords(events) ==
    LET mapped == [i \in 1..Len(events) |-> Sanitize(events[i])]
        bad == {Sanitize(events[i]) : i \in {k \in 1..Len(events) :
                   \/ ParseFloat(events[k].latitude).kind = "nan"
                   \/ ParseFloat(events[k].longitude).kind = "nan"}}
        kept == SelectSeqBy(mapped, [e \in {mapped[i] : i \in 1..Len(mapped)} |-> e \notin bad])
    IN SortByDate(kept)

\* the preprocessing map, its filter and the sort by event_date
Preprocess(events) ==
    LET mapped == [i \in 1..Len(events) |-> Sanitize(events[i])]
        kept == SelectSeqBy(mapped, [e \in {mapped[i] : i \in 1..Len(mapped)} |-> IsValidEvent(e)])
    IN SortByDate(kept)

\* the map of loadTestData
SanitizeTest(ev) ==
    [event_id |-> ev.event_id,
     event_title |-> ev.event_title,
     event_category |-> ev.event_category,
     event_date_utc |-> ev.event_date_utc,
     crawled_at |-> ev.crawled_at,
     latitude |-> IF ParseFloat(ev.latitude) \in {NaN, Num(0)} THEN Num(0) ELSE ParseFloat(ev.latitude),
     longitude |-> IF ParseFloat(ev.longitude) \in {NaN, Num(0)} THEN Num(0) ELSE ParseFloat(ev.longitude),
     event_date |-> ParseDate(ev.event_date_utc),
     \* the truthiness of event.latitude && event.longitude && event.latitude !== "" && ...
     hasValidCoords |-> Truthy(ev.latitude) /\ Truthy(ev.longitude)]

(***************************************************************************)
(* The crawler's category normalizer                                       *)
(***************************************************************************)
\* sub occurs in s at position i
OccursAt(s, sub, i) ==
    /\ i + Len(sub) - 1 <= Len(s)
    /\ s[i] = sub[1]
    /\ SubSeq(s, i, i + Len(sub) - 1) = sub

\* re.search of "a.*b": a occurs and b occurs somewhere after its end
SearchThen(s, a, b) ==
    \E i \in 1..(Len(s) - Len(a) + 1) :
        /\ OccursAt(s, a, i)
        /\ \E j \in (i + Len(a))..(Len(s) - Len(b) + 1) : OccursAt(s, b, j)

\* a pattern "first.*(then1|then2)|^whole$" searched in s
PatternMatches(p, s) ==
    \/ \E b \in p.then : SearchThen(s, p.first, b)
    \/ s \in p.whole

\* mutant: the fire pattern without its "outdoor fire" alternative
aliasesNoOutdoorFire ==
    << [first |-> <<"s", "o", "c", "i", "a", "l", " ", "i", "n", "c", "i", "d", "e", "n", "t">>, then |-> {<<"w", "a", "r">>}, whole |-> {<<"w", "a", "r">>}, category |-> "War"],
       [first |-> <<"f", "i", "r", "e">>, then |-> {<<"f", "i", "r", "e", " ", "i", "n", " ", "b", "u", "i", "l", "t", " ", "e", "n", "v", "i", "r", "o", "n", "m", "e", "n", "t">>}, whole |-> {}, category |-> "Fire in built environment"],
       [first |-> <<"g", "e", "o", "l", "o", "g", "i", "c", "a", "l">>, then |-> {<<"e", "a", "r", "t", "h", "q", "u", "a", "k", "e">>}, whole |-> {}, category |-> "Earthquake"],
       [first |-> <<"h", "y", "d", "r", "o", "l", "o", "g", "i", "c", "a", "l">>, then |-> {<<"f", "l", "o", "o", "d">>, <<"f", "l", "a", "s", "h", " ", "f", "l", "o", "o", "d">>}, whole |-> {}, category |-> "Flood"],
       [first |-> <<"w", "e", "a", "t", "h", "e", "r">>, then |-> {<<"e", "x", "t", "r", "e", "m", "e", " ", "r", "a", "i", "n", "f", "a", "l", "l">>, <<"l", "i", "g", "h", "t", "n", "i", "n", "g">>}, whole |-> {}, category |-> "Flood"] >>

\* the documented (pattern, category) pairs, in order:
\*   social incident.*war|^war$                            War
\*   fire.*(fire in built environment|outdoor fire)        Fire in built environment
\*   geological.*earthquake                                Earthquake
\*   hydrological.*(flood|flash flood)                     Flood
\*   weather.*(extreme rainfall|lightning)                 Flood
aliases ==
    << [first |-> <<"s", "o", "c", "i", "a", "l", " ", "i", "n", "c", "i", "d", "e", "n", "t">>, then |-> {<<"w", "a", "r">>}, whole |-> {<<"w", "a", "r">>}, category |-> "War"],
       [first |-> <<"f", "i", "r", "e">>, then |-> {<<"f", "i", "r", "e", " ", "i", "n", " ", "b", "u", "i", "l", "t", " ", "e", "n", "v", "i", "r", "o", "n", "m", "e", "n", "t">>, <<"o", "u", "t", "d", "o", "o", "r", " ", "f", "i", "r", "e">>}, whole |-> {}, category |-> "Fire in built environment"],
       [first |-> <<"g", "e", "o", "l", "o", "g", "i", "c", "a", "l">>, then |-> {<<"e", "a", "r", "t", "h", "q", "u", "a", "k", "e">>}, whole |-> {}, category |-> "Earthquake"],
       [first |-> <<"h", "y", "d", "r", "o", "l", "o", "g", "i", "c", "a", "l">>, then |-> {<<"f", "l", "o", "o", "d">>, <<"f", "l", "a", "s", "h", " ", "f", "l", "o", "o", "d">>}, whole |-> {}, category |-> "Flood"],
       [first |-> <<"w", "e", "a", "t", "h", "e", "r">>, then |-> {<<"e", "x", "t", "r", "e", "m", "e", " ", "r", "a", "i", "n", "f", "a", "l", "l">>, <<"l", "i", "g", "h", "t", "n", "i", "n", "g">>}, whole |-> {}, category |-> "Flood"] >>

\* the list is scanned top to bottom; the first matching pattern decides
RECURSIVE FirstMatch(_, _)
FirstMatch(list, s) ==
    IF list = <<>> THEN "Unknown"
    ELSE IF PatternMatches(Head(list), s) THEN Head(list).category
         ELSE FirstMatch(Tail(list), s)

NormalizeCategory(raw) == FirstMatch(aliases, ToLowerCase(raw))

(***************************************************************************)
(* Clustering, statistics and risk alerts (updateStats, checkRiskAlerts)   *)
(* Clusters hold the positions of their events in filteredData, in the     *)
(* order the events were pushed.  Distances are compared exactly, as       *)
(* squares; the squares exceed the integer range and are kept as three     *)
(* base-1000 limbs.                                                        *)
(***************************************************************************)
Abs(x) == IF x < 0 THEN -x ELSE x

LimbBase == 1000

\* x * x for 0 <= x < 32,000,000
Square(x) ==
    LET h == x \div LimbBase
        l == x % LimbBase
        m == 2 * h * l + (l * l) \div LimbBase
    IN <<h * h + m \div LimbBase, m % LimbBase, (l * l) % LimbBase>>

AddLimbs(a, b) ==
    LET l0 == a[3] + b[3]
        l1 == a[2] + b[2] + l0 \div LimbBase
    IN <<a[1] + b[1] + l1 \div LimbBase, l1 % LimbBase, l0 % LimbBase>>

LimbsLeq(a, b) ==
    \/ a[1] < b[1]
    \/ a[1] = b[1] /\ a[2] < b[2]
    \/ a[1] = b[1] /\ a[2] = b[2] /\ a[3] <= b[3]

\* cluster.events.reduce((sum, e) => sum + e.latitude, 0) over the members at
\* positions lo..hi, for finite coordinates (integer addition is associative, so
\* the sum is taken by halves)
RECURSIVE SumLatRange(_, _, _, _)
SumLatRange(events, members, lo, hi) ==
    IF lo > hi THEN 0
    ELSE IF lo = hi THEN events[members[lo]].latitude.v
    ELSE SumLatRange(events, members, lo, (lo + hi) \div 2)
         + SumLatRange(events, members, (lo + hi) \div 2 + 1, hi)

SumLat(events, members) == SumLatRange(events, members, 1, Len(members))

RECURSIVE SumLngRange(_, _, _, _)
SumLngRange(events, members, lo, hi) ==
    IF lo > hi THEN 0
    ELSE IF lo = hi THEN events[members[lo]].longitude.v
    ELSE SumLngRange(events, members, lo, (lo + hi) \div 2)
         + SumLngRange(events, members, (lo + hi) \div 2 + 1, hi)

SumLng(events, members) == SumLngRange(events, members, 1, Len(members))

FiniteCoords(e) == e.latitude.kind = "num" /\ e.longitude.kind = "num"

\* mutant: the comparison is reversed, distance >= CLUSTER_RADIUS
WithinRadiusReversed(events, k, members, radius) ==
    /\ FiniteCoords(events[k])
    /\ \A i \in 1..Len(members) : FiniteCoords(events[members[i]])
    /\ LET n == Len(members)
           dx == Abs(n * events[k].latitude.v - SumLat(events, members))
           dy == Abs(n * events[k].longitude.v - SumLng(events, members))
           rn == n * radius
       IN \/ dx >= rn
          \/ dy >= rn
          \/ LimbsLeq(Square(rn), AddLimbs(Square(dx), Square(dy)))

\* distance <= CLUSTER_RADIUS, with centerLat and centerLng the means of the
\* cluster's events: sqrt(dx^2 + dy^2) <= r  iff  (n dx)^2 + (n dy)^2 <= (n r)^2.
\* An infinite coordinate makes the distance Infinity or NaN: never <= r.
WithinRadius(events, k, members, radius) ==
    /\ FiniteCoords(events[k])
    /\ \A i \in 1..Len(members) : FiniteCoords(events[members[i]])
    /\ LET n == Len(members)
           dx == Abs(n * events[k].latitude.v - SumLat(events, members))
           dy == Abs(n * events[k].longitude.v - SumLng(events, members))
           rn == n * radius
       IN /\ dx <= rn
          /\ dy <= rn
          /\ LimbsLeq(AddLimbs(Square(dx), Square(dy)), Square(rn))

\* mutant: an event without valid coordinates is not placed
ClusterStepValidOnly(events, clusters, k, radius) ==
    LET near == {j \in 1..Len(clusters) : WithinRadius(events, k, clusters[j], radius)}
    IN IF ~events[k].hasValidCoords THEN clusters
       ELSE IF near = {} THEN Append(clusters, <<k>>)
       ELSE LET j == CHOOSE x \in near : \A y \in near : x <= y
            IN [clusters EXCEPT ![j] = Append(@, k)]

\* mutant: the event joins the last cluster in range, not the first
ClusterStepLastMatch(events, clusters, k, radius) ==
    LET near == {j \in 1..Len(clusters) : WithinRadius(events, k, clusters[j], radius)}
    IN IF near = {} THEN Append(clusters, <<k>>)
       ELSE LET j == CHOOSE x \in near : \A y \in near : y <= x
            IN [clusters EXCEPT ![j] = Append(@, k)]

\* the forEach callback: for (let cluster of clusters) { ... break } / clusters.push
ClusterStep(events, clusters, k, radius) ==
    LET near == {j \in 1..Len(clusters) : WithinRadius(events, k, clusters[j], radius)}
    IN IF near = {} THEN Append(clusters, <<k>>)
       ELSE LET j == CHOOSE x \in near : \A y \in near : x <= y
            IN [clusters EXCEPT ![j] = Append(@, k)]

\* the forEach over the events at positions todo[lo..hi], in that order, taken
\* by halves: the first half's clusters are the second half's starting clusters
RECURSIVE ClusterFold(_, _, _, _, _, _)
ClusterFold(events, clusters, todo, lo, hi, radius) ==
    IF lo > hi THEN clusters
    ELSE IF lo = hi THEN ClusterStep(events, clusters, todo[lo], radius)
    ELSE LET half == ClusterFold(events, clusters, todo, lo, (lo + hi) \div 2, radius)
         IN IF Len(half) >= Len(clusters)      \* clusters are never removed
            THEN ClusterFold(events, half, todo, (lo + hi) \div 2 + 1, hi, radius)
            ELSE half

\* the clustering loop over the events at positions todo, in that order
GreedyClusters(events, todo, radius) ==
    ClusterFold(events, <<>>, todo, 1, Len(todo), radius)

StatsClusterRadius == 100000     \* CLUSTER_RADIUS = 1.0 in updateStats
RiskClusterRadius == 50000       \* CLUSTER_RADIUS = 0.5 in checkRiskAlerts
RiskWindowDays == 30
RecentWeekDays == 7
RiskMinEvents == 30
RiskMinRecent == 5

\* a >= b on two Dates: false when either is invalid
DateGE(a, b) == a.kind = "num" /\ b.kind = "num" /\ a.v >= b.v

Indices(n) == [i \in 1..n |-> i]

\* updateStats: the clusters whose number is shown as the affected areas
UpdateStats(fd) == GreedyClusters(fd, Indices(Len(fd)), StatsClusterRadius)

\* recentEvents = filteredData.filter(event => event.event_date >= thirtyDaysAgo)
RecentIndices(fd) ==
    SelectSeq(Indices(Len(fd)),
              LAMBDA k : DateGE(fd[k].event_date, Num(Now - RiskWindowDays)))

\* new Date(crawled_at): undefined gives an invalid Date
CrawlParse(c) == IF c.kind = "time" THEN Num(c.t) ELSE NaN

\* new Date(event.event_date_utc || event.crawled_at)
RiskEventDate(e) ==
    IF e.event_date_utc.form # "absent" THEN ParseDate(e.event_date_utc)
    ELSE CrawlParse(e.crawled_at)

\* daysDiff <= 7
InRecentWeek(e) ==
    LET d == RiskEventDate(e)
    IN d.kind = "num" /\ Now - d.v <= RecentWeekDays

RecentWeekCount(fd, members) ==
    Cardinality({i \in 1..Len(members) : InRecentWeek(fd[members[i]])})

\* mutant: more than 30 events are asked for
IsRiskClusterStrict(fd, members) ==
    /\ Len(members) > RiskMinEvents
    /\ RecentWeekCount(fd, members) >= RiskMinRecent

\* cluster.events.length >= 30 && recentWeek.length >= 5
IsRiskCluster(fd, members) ==
    /\ Len(members) >= RiskMinEvents
    /\ RecentWeekCount(fd, members) >= RiskMinRecent

\* mutant: the first risk cluster is taken, without the reduce
MostRiskyFirst(risk) == risk[1]

\* riskClusters.reduce((max, current) => current.events.length > max.events.length ? current : max)
RECURSIVE MostRisky(_)
MostRisky(risk) ==
    IF Len(risk) = 1 THEN risk[1]
    ELSE LET max == MostRisky(SubSeq(risk, 1, Len(risk) - 1))
             current == risk[Len(risk)]
         IN IF Len(current) > Len(max) THEN current ELSE max

\* [...new Set(cluster.events.map(e => e.event_category))]: first appearances, in order
DistinctCategories(fd, members) ==
    LET firsts == SelectSeq(Indices(Len(members)),
                            LAMBDA i : \A j \in 1..(i - 1) :
                                fd[members[j]].event_category # fd[members[i]].event_category)
    IN [i \in 1..Len(firsts) |-> fd[members[firsts[i]]].event_category]

\* the mean of the cluster's coordinates, as sums over the member count
Centroid(fd, members) ==
    [latSum |-> SumLat(fd, members), lngSum |-> SumLng(fd, members), n |-> Len(members)]

\* the marker showRiskAnimation(lat, lng, eventCount) pushes
RiskMarker(fd, members) == [center |-> Centroid(fd, members), eventCount |-> Len(members)]

\* mutant: the markers of the previous call are not cleared
CheckRiskAlertsKeepMarkers(fd, hasMap, message, markers) ==
    LET recent == RecentIndices(fd)
        clusters == GreedyClusters(fd, recent, RiskClusterRadius)
        risk == SelectSeq(clusters, LAMBDA c : IsRiskCluster(fd, c))
    IN IF recent = <<>>
       THEN [hidden |-> TRUE, message |-> message, markers |-> markers, clusters |-> <<>>]
       ELSE IF risk # <<>>
       THEN LET top == MostRisky(risk)
            IN [hidden |-> FALSE,
                message |-> [eventCount |-> Len(top),
                             categories |-> DistinctCategories(fd, top),
                             center |-> Centroid(fd, top)],
                markers |-> IF hasMap
                            THEN markers \o <<RiskMarker(fd, top)>>
                                 \o [i \in 1..(Len(risk) - 1) |-> RiskMarker(fd, risk[i + 1])]
                            ELSE markers,
                clusters |-> clusters]
       ELSE [hidden |-> TRUE, message |-> message, markers |-> markers, clusters |-> clusters]

\* checkRiskAlerts: the new values of the alert panel's hidden class, of the
\* message, of riskAnimationMarkers, and the local clusters
CheckRiskAlerts(fd, hasMap, message, markers) ==
    LET recent == RecentIndices(fd)
        clusters == GreedyClusters(fd, recent, RiskClusterRadius)
        risk == SelectSeq(clusters, LAMBDA c : IsRiskCluster(fd, c))
    IN IF recent = <<>>
       THEN [hidden |-> TRUE, message |-> message, markers |-> <<>>, clusters |-> <<>>]
       ELSE IF risk # <<>>
       THEN LET top == MostRisky(risk)
            IN [hidden |-> FALSE,
                message |-> [eventCount |-> Len(top),
                             categories |-> DistinctCategories(fd, top),
                             center |-> Centroid(fd, top)],
                markers |-> IF hasMap
                            THEN <<RiskMarker(fd, top)>>
                                 \o [i \in 1..(Len(risk) - 1) |-> RiskMarker(fd, risk[i + 1])]
                            ELSE <<>>,
                clusters |-> clusters]
       ELSE [hidden |-> TRUE, message |-> message, markers |-> <<>>, clusters |-> clusters]

\* new Date(dateString) after the "+00:00Z" repair is an invalid Date
Unparseable(ds) == ParseDate(RepairDate(ds)).kind = "nan"

\* applyCurrentFilters with the slider at 100%, no date-range button, no source
\* and no search text; the date inputs hold the range populateFilters wrote:
\* start is the first day's midnight UTC, end is 23:59:59.999 local time of the
\* day new Date(endDate) falls on, which only an event stamped with the instant
\* of the load (new Date() for an unparseable date) can lie after
ApplyCurrentFilters(events, filter, cutsNow) ==
    SelectSeq(events, LAMBDA e :
        /\ filter = "" \/ e.event_category = filter
        /\ ~(cutsNow /\ Unparseable(e.event_date_utc)))

\* a <= b on two Dates: false when either is invalid
DateLE(a, b) == a.kind = "num" /\ b.kind = "num" /\ a.v <= b.v

\* applyTimeSlider: the new filteredData; fd is the old one, which stays when
\* there are no events.  Math.ceil((percent / 100) * total) is exact for the
\* modelled sizes
ApplyTimeSlider(events, percent, fd) ==
    LET total == Len(events)
        eventsToShow == (percent * total + 99) \div 100
    IN IF total = 0 THEN fd
       ELSE IF percent = 100 THEN events
       ELSE IF eventsToShow > 0
       THEN LET cutoffDate == SortByDate(events)[eventsToShow].event_date
            IN SelectSeq(events, LAMBDA e : DateLE(e.event_date, cutoffDate))
       ELSE <<>>

\* applyCurrentFilters up to the assignment of filteredData: the slider, then
\* the category, then the date inputs (an invalid event_date passes no
\* comparison with the start date)
FilterView(events, percent, filter, inputsSet, cutsNow, fd) ==
    LET base == ApplyTimeSlider(events, percent, fd)
        dated == IF inputsSet
                 THEN SelectSeq(base, LAMBDA e : e.event_date.kind = "num")
                 ELSE base
    IN ApplyCurrentFilters(dated, filter, cutsNow /\ inputsSet)

\* UTF-16 code units of the characters of the modelled strings
CharCode(c) ==
    IF \E i \in 1..Len(LowerChars) : LowerChars[i] = c
    THEN 96 + (CHOOSE i \in 1..Len(LowerChars) : LowerChars[i] = c)
    ELSE IF \E i \in 1..Len(UpperChars) : UpperChars[i] = c
    THEN 64 + (CHOOSE i \in 1..Len(UpperChars) : UpperChars[i] = c)
    ELSE CASE c = "\t" -> 9 [] c = " " -> 32 [] c = "!" -> 33 [] c = "_" -> 95
           [] c = "0" -> 48 [] c = "1" -> 49 [] c = "2" -> 50 [] c = "3" -> 51
           [] c = "4" -> 52 [] c = "5" -> 53 [] c = "6" -> 54 [] c = "7" -> 55
           [] c = "8" -> 56 [] c = "9" -> 57

\* a < b on two strings: by code units, a proper prefix is smaller
RECURSIVE StringLT(_, _)
StringLT(a, b) ==
    IF b = <<>> THEN FALSE
    ELSE IF a = <<>> THEN TRUE
    ELSE IF CharCode(Head(a)) # CharCode(Head(b)) THEN CharCode(Head(a)) < CharCode(Head(b))
    ELSE StringLT(Tail(a), Tail(b))

\* a < b on two numbers: false when either is NaN
NumberLT(a, b) ==
    /\ a.kind # "nan" /\ b.kind # "nan"
    /\ \/ a.kind = "num" /\ b.kind = "inf"
       \/ a.kind = "num" /\ b.kind = "num" /\ a.v < b.v

NoSort == [column |-> "null", direction |-> "null"]
SortColumns == {"event_date", "latitude", "event_title"}

\* aValue / bValue of the comparator
SortValue(e, column) ==
    CASE column = "event_date" -> e.event_date
      [] column = "latitude" -> IF e.latitude.kind = "nan" THEN Num(0) ELSE e.latitude
      [] OTHER -> ToLowerCase(e.event_title)

\* aValue < bValue
ValueLT(a, b, column) ==
    IF column = "event_title"
    THEN StringLT(SortValue(a, column), SortValue(b, column))
    ELSE NumberLT(SortValue(a, column), SortValue(b, column))

\* the comparator's result for (a, b)
Comparison(a, b, sort) ==
    LET comparison == IF ValueLT(b, a, sort.column) THEN 1
                      ELSE IF ValueLT(a, b, sort.column) THEN -1 ELSE 0
    IN IF sort.direction = "desc" THEN -comparison ELSE comparison

\* a stable sort: e goes right after the last element that does not compare
\* greater than it
InsertSorted(sorted, e, sort) ==
    LET notAfter == {i \in 1..Len(sorted) : Comparison(sorted[i], e, sort) <= 0}
        p == IF notAfter = {} THEN 0
             ELSE CHOOSE i \in notAfter : \A j \in notAfter : j <= i
    IN SubSeq(sorted, 1, p) \o <<e>> \o SubSeq(sorted, p + 1, Len(sorted))

RECURSIVE StableSort(_, _)
StableSort(s, sort) ==
    IF s = <<>> THEN <<>>
    ELSE InsertSorted(StableSort(SubSeq(s, 1, Len(s) - 1), sort), s[Len(s)], sort)

Orderings(s) ==
    {[i \in 1..Len(s) |-> s[p[i]]] :
        p \in {q \in [1..Len(s) -> 1..Len(s)] : \A i, j \in 1..Len(s) : q[i] = q[j] => i = j}}

\* the comparator is a consistent order unless an invalid Date is compared
ConsistentComparator(s, sort) ==
    sort.column # "event_date" \/ \A i \in 1..Len(s) : s[i].event_date.kind = "num"

\* the arrays [...filteredData].sort(comparator) can return: the stable order,
\* or an implementation-defined order when the comparator is not consistent
SortResults(fd, sort) ==
    IF sort.column = "null" \/ sort.direction = "null" THEN {fd}
    ELSE IF ConsistentComparator(fd, sort) THEN {StableSort(fd, sort)}
    ELSE Orderings(fd)

NoMessage == [eventCount |-> 0, categories |-> <<>>, center |-> [latSum |-> 0, lngSum |-> 0, n |-> 0]]

(***************************************************************************)
(* Input records                                                           *)
(***************************************************************************)
Ev(id, title, date, lat, lon, crawl, cat) ==
    [event_id |-> id, event_title |-> title, event_category |-> cat,
     event_date_utc |-> date, latitude |-> lat, longitude |-> lon,
     crawled_at |-> crawl]

idX == <<"x">>
idY == <<"y">>
D1 == DateIso(2025, 9, 1)
D2 == DateIso(2025, 9, 15)
Lat1 == RawNum(1000001)      \* "10.00001"
Lat1b == RawNum(1000002)     \* "10.00002": the same 4-decimal rounding as Lat1
Lat2 == RawNum(1009000)      \* "10.09": about 10 km north of Lat1
Lon1 == RawNum(1231000)      \* "12.31"
Lon2 == RawNum(1241000)      \* "12.41": with Lat2 about 15 km from (Lat1, Lon1)
Lon123 == RawNum(1230000)    \* "12.3"
\* records that differ in identifier, capture time and content key
DedupRecords ==
    { Ev(idX, <<"a">>, D1, Lat1, Lon1, CrawlAt(1), Fire),
      Ev(idX, <<"b">>, D1, Lat1, Lon1, CrawlAt(2), Fire),
      Ev(idY, <<"A", "!">>, D1, Lat1b, Lon1, CrawlAt(2), Fire),
      Ev(idY, <<"a">>, D2, Lat2, Lon2, CrawlAbsent, Fire),
      Ev(idY, <<"!", "!">>, D1, Lat1, Lon1, CrawlBad, "Flood"),
      Ev(<<" ">>, <<"b">>, D1, Lat1, Lon1, CrawlAt(2), Fire) }

\* records that differ in raw coordinates, date form and category
CoordRecords ==
    { Ev(idX, <<"a">>, D1, RawEmpty, Lon123, CrawlAt(1), "Flood"),
      Ev(idY, <<"b">>, D1, Lat1, RawText, CrawlAt(1), "Earthquake"),
      Ev(idX, <<"b">>, D2, RawNull, RawNull, CrawlAt(1), "Tornado"),
      Ev(idY, <<"a">>, D1, RawNum(0), Lon123, CrawlAt(1), "War"),
      Ev(idX, <<"a">>, D2, RawInf, Lon123, CrawlAt(1), "Unknown"),
      Ev(idY, <<"b">>, D2, Lat2, Lon2, CrawlAt(2), Fire),
      Ev(idX, <<"b">>, DateBad, RawNum(-3), Lon123, CrawlAt(2), "Fire - Outdoor fire"),
      Ev(idY, <<"!", " ", "!">>, DateDbl(2025, 9, 1), Lat1, Lon1, CrawlAt(2), "Landslide") }

SeqsUpTo(S, n) == UNION {[1..k -> S] : k \in 0..n}

(***************************************************************************)
(* The loader as a state machine: one action per segment between awaits    *)
(***************************************************************************)
\* the globals of the script and the page's controls before the load handler
InitGlobals ==
    /\ pc = "idle"
    /\ mainData = <<>>
    /\ pastData = <<>>
    /\ eventMap = <<>>
    /\ deduped = <<>>
    /\ disasterEvents = <<>>
    /\ lastUpdateTime = "null"
    /\ errorHidden = TRUE
    /\ dataFrom = "none"
    /\ rawCategory = <<>>
    /\ category = "pending"
    /\ filteredData = <<>>
    /\ categoryFilter = ""
    /\ statsClusters = <<>>
    /\ riskPassClusters = <<>>
    /\ riskAlertHidden = TRUE
    /\ riskMessage = NoMessage
    /\ riskAnimationMarkers = <<>>
    /\ map = TRUE
    /\ endDateCutsNow = FALSE
    /\ sortedData = <<>>
    /\ dateInputsSet = FALSE
    /\ currentEvents = <<>>
    /\ pastEvents = <<>>
    /\ today = Now
    /\ runDay = Now
    /\ currentSort = NoSort
    /\ sliderValue = 100
    /\ isPlaying = FALSE
    /\ animationInterval = 0
    /\ timers = {}
    /\ currentTimeIndex = 0
    /\ animationSpeed = 700
    /\ calls = <<>>

Init ==
    /\ \/ /\ mainFile \in SeqsUpTo(DedupRecords, MaxMain)
          /\ pastFile \in SeqsUpTo(DedupRecords, MaxPast)
          /\ testFile = <<>>
       \/ /\ mainFile \in SeqsUpTo(CoordRecords, MaxMain)
          /\ pastFile = <<>>
          /\ testFile = <<>>
       \/ /\ mainFile = <<>>
          /\ pastFile = <<>>
          /\ testFile \in SeqsUpTo(CoordRecords, MaxTest)
    /\ InitGlobals

\* initializeData on the events just assigned to disasterEvents: populateFilters
\* rebuilds the options of #categoryFilter (its value falls back to ""), then
\* updateStats, applyCurrentFilters and checkRiskAlerts run
InitializeData(events) ==
    /\ endDateCutsNow' \in
          IF \E i \in 1..Len(events) : Unparseable(events[i].event_date_utc)
          THEN BOOLEAN ELSE {FALSE}
    /\ dateInputsSet' = (dateInputsSet \/ events # <<>>)
    /\ LET fd == FilterView(events, sliderValue, "", dateInputsSet', endDateCutsNow', events)
           risk == CheckRiskAlerts(fd, map, riskMessage, riskAnimationMarkers)
       IN /\ categoryFilter' = ""
          /\ filteredData' = fd
          /\ sortedData' \in SortResults(fd, currentSort)
          /\ statsClusters' = UpdateStats(fd)
          /\ riskPassClusters' = risk.clusters
          /\ riskAlertHidden' = risk.hidden
          /\ riskMessage' = risk.message
          /\ riskAnimationMarkers' = risk.markers
          /\ UNCHANGED <<map, currentSort, sliderValue>>

\* populateFilters throws a RangeError (toISOString of an invalid Date) when an
\* event_date is invalid: initializeData stops after filteredData was assigned
\* and the category options were rebuilt
InitializeDataThrows(events) ==
    /\ categoryFilter' = ""
    /\ filteredData' = events
    /\ sortedData' = events
    /\ UNCHANGED <<statsClusters, riskPassClusters, riskAlertHidden, riskMessage,
                   riskAnimationMarkers, map, endDateCutsNow, currentSort, sliderValue,
                   dateInputsSet>>

\* loadDisasterData up to the first await (page load, auto refresh, visibilitychange)
StartLoad ==
    /\ pc = "idle"
    /\ pc' = "fetchMain"
    /\ errorHidden' = TRUE
    /\ mainData' = <<>>
    /\ pastData' = <<>>
    /\ eventMap' = <<>>
    /\ deduped' = <<>>
    /\ UNCHANGED <<mainFile, pastFile, testFile, disasterEvents, lastUpdateTime, dataFrom>>
    /\ UNCHANGED <<crawlerVars, mergeVars, animVars, overlapVars>>
    /\ UNCHANGED <<viewVars, tableVars>>

\* events.json arrives and parses; the past_events.json request is issued
MainResponseOk ==
    /\ pc = "fetchMain"
    /\ mainData' = mainFile
    /\ pc' = "fetchPast"
    /\ UNCHANGED <<mainFile, pastFile, testFile, pastData, eventMap, deduped, disasterEvents,
                   lastUpdateTime, errorHidden, dataFrom>>
    /\ UNCHANGED <<crawlerVars, mergeVars, animVars, overlapVars>>
    /\ UNCHANGED <<viewVars, tableVars>>

\* mutant: the fallback to the test data is tried whatever disasterEvents holds
LoadFailAlwaysFallsBack ==
    /\ pc \in {"fetchMain", "fetchPast"}
    /\ errorHidden' = FALSE
    /\ pc' = "fetchTest"
    /\ UNCHANGED <<mainFile, pastFile, testFile, mainData, pastData, eventMap, deduped,
                   disasterEvents, lastUpdateTime, dataFrom>>
    /\ UNCHANGED <<crawlerVars, mergeVars, animVars, overlapVars>>
    /\ UNCHANGED <<viewVars, tableVars>>

\* the catch block: response not ok, JSON.parse failure, or a non-array body
LoadFail ==
    /\ pc \in {"fetchMain", "fetchPast"}
    /\ errorHidden' = FALSE
    /\ pc' = IF Len(disasterEvents) = 0 THEN "fetchTest" ELSE "idle"
    /\ UNCHANGED <<mainFile, pastFile, testFile, mainData, pastData, eventMap, deduped,
                   disasterEvents, lastUpdateTime, dataFrom>>
    /\ UNCHANGED <<crawlerVars, mergeVars, animVars, overlapVars>>
    /\ UNCHANGED <<viewVars, tableVars>>

\* past_events.json answers (ok or not); merge, identity pass, content pass
PastResponse(ok) ==
    /\ pc = "fetchPast"
    /\ pastData' = IF ok THEN pastFile ELSE <<>>
    /\ eventMap' = IdentityPass(pastData' \o mainData)
    /\ deduped' = ContentPass(eventMap')
    /\ pc' = "fetchUpdate"
    /\ UNCHANGED <<mainFile, pastFile, testFile, mainData, disasterEvents, lastUpdateTime,
                   errorHidden, dataFrom>>
    /\ UNCHANGED <<crawlerVars, mergeVars, animVars, overlapVars>>
    /\ UNCHANGED <<viewVars, tableVars>>

\* last_update.txt answers (ok or not); preprocessing, sort, initializeData
UpdateResponse(ok) ==
    /\ pc = "fetchUpdate"
    /\ lastUpdateTime' = IF ok THEN "stamp" ELSE lastUpdateTime
    /\ disasterEvents' = Preprocess(deduped)
    /\ pc' = "idle"
    /\ dataFrom' = "load"
    /\ UNCHANGED <<mainFile, pastFile, testFile, mainData, pastData, eventMap, deduped, errorHidden>>
    /\ UNCHANGED <<crawlerVars, mergeVars, animVars, overlapVars>>
    /\ InitializeData(disasterEvents')

\* loadTestData after test_data.json answered with an array
TestResponseOk ==
    /\ pc = "fetchTest"
    /\ disasterEvents' = [i \in 1..Len(testFile) |-> SanitizeTest(testFile[i])]
    /\ pc' = "idle"
    /\ dataFrom' = "test"
    /\ UNCHANGED <<mainFile, pastFile, testFile, mainData, pastData, eventMap, deduped,
                   lastUpdateTime, errorHidden>>
    /\ UNCHANGED <<crawlerVars, mergeVars, animVars, overlapVars>>
    /\ IF \E i \in 1..Len(disasterEvents') : disasterEvents'[i].event_date.kind # "num"
       THEN InitializeDataThrows(disasterEvents')
       ELSE InitializeData(disasterEvents')

\* loadTestData's catch block
TestResponseFail ==
    /\ pc = "fetchTest"
    /\ pc' = "idle"
    /\ UNCHANGED <<mainFile, pastFile, testFile, mainData, pastData, eventMap, deduped,
                   disasterEvents, lastUpdateTime, errorHidden, dataFrom>>
    /\ UNCHANGED <<crawlerVars, mergeVars, animVars, overlapVars>>
    /\ UNCHANGED <<viewVars, tableVars>>

Next ==
    \/ StartLoad
    \/ MainResponseOk
    \/ LoadFail
    \/ \E ok \in BOOLEAN : PastResponse(ok)
    \/ \E ok \in BOOLEAN : UpdateResponse(ok)
    \/ TestResponseOk
    \/ TestResponseFail

vars == <<loaderVars, crawlerVars, viewVars, mergeVars, tableVars, animVars, overlapVars>>

Spec == Init /\ [][Next]_vars

TypeOK ==
    /\ pc \in {"idle", "fetchMain", "fetchPast", "fetchUpdate", "fetchTest"}
    /\ errorHidden \in BOOLEAN

(***************************************************************************)
(* Properties of the merge and the two deduplication passes                *)
(***************************************************************************)
Elems(s) == {s[i] : i \in 1..Len(s)}

\* const allEvents = [...pastData, ...mainData]
allEvents == pastData \o mainData

\* the state right after the identity pass and the content pass
Merged == pc = "fetchUpdate"

ValidId(id) == id # <<>> /\ Trim(id) # <<>>
GroupOf(id) == {i \in 1..Len(allEvents) : allEvents[i].event_id = id}
FirstIndexOf(id) == CHOOSE i \in GroupOf(id) : \A j \in GroupOf(id) : i <= j
CrawlOf(ev) == CrawlDate(ev.crawled_at)

\* C1: after loadDisasterData merged past_events.json and events.json, no two
\* events of disasterEvents share an event_id, whatever the two files hold.
C1_UniqueIds ==
    dataFrom = "load" =>
        \A i, j \in 1..Len(disasterEvents) :
            i # j => disasterEvents[i].event_id # disasterEvents[j].event_id

\* an identifier present in both files and repeated inside events.json was merged
C1_Witness ==
    /\ dataFrom = "load"
    /\ pc = "idle"
    /\ Len(disasterEvents) >= 1
    /\ \E i \in 1..Len(pastFile), j, k \in 1..Len(mainFile) :
          /\ j # k
          /\ pastFile[i].event_id = mainFile[j].event_id
          /\ mainFile[j].event_id = mainFile[k].event_id
          /\ mainFile[j] # mainFile[k]
          /\ disasterEvents[1].event_id = mainFile[j].event_id

\* C2: in the identity pass every non-blank identifier of the combined sequence
\* keeps exactly one of its records, and when the capture times of its records
\* are comparable (a missing crawled_at counts as the epoch) the survivor has
\* the latest one, whichever position it has in the sequence.
C2_LatestCaptureSurvives ==
    Merged =>
        \A i \in 1..Len(allEvents) :
            LET id == allEvents[i].event_id
                G == GroupOf(id)
            IN ValidId(id) =>
                /\ MapHas(eventMap, id)
                /\ Cardinality({k \in 1..Len(eventMap) : eventMap[k].event_id = id}) = 1
                /\ MapGet(eventMap, id) \in {allEvents[k] : k \in G}
                /\ (\A k \in G : CrawlOf(allEvents[k]).kind = "num") =>
                      \A k \in G : CrawlOf(allEvents[k]).v <= CrawlOf(MapGet(eventMap, id)).v

\* two records of one identifier, the newer one first: only the newer survives
C2_Witness ==
    /\ Merged
    /\ \E i, j \in 1..Len(allEvents) :
          /\ i < j
          /\ allEvents[i].event_id = allEvents[j].event_id
          /\ ValidId(allEvents[i].event_id)
          /\ GroupOf(allEvents[i].event_id) = {i, j}
          /\ DateGT(CrawlOf(allEvents[i]), CrawlOf(allEvents[j]))
          /\ allEvents[i] \in Elems(eventMap)
          /\ allEvents[j] \notin Elems(eventMap)

\* C3: the identity pass followed by the content pass, run on the
\* deduplicator's own output, returns the same records in the same order.
C3_Idempotent ==
    Merged => ContentPass(IdentityPass(deduped)) = deduped

\* the first run removed records and left at least two
C3_Witness ==
    /\ Merged
    /\ Len(deduped) >= 2
    /\ Len(deduped) < Len(allEvents)

KeyFirst(i) ==
    \A j \in 1..(i - 1) : ContentKey(eventMap[j]) # ContentKey(eventMap[i])

\* the identity-deduplicated set lists each identifier at its first occurrence
EncounterOrder ==
    /\ \A i \in 1..Len(allEvents) :
          ValidId(allEvents[i].event_id) => MapHas(eventMap, allEvents[i].event_id)
    /\ \A a, b \in 1..Len(eventMap) :
          a < b => FirstIndexOf(eventMap[a].event_id) < FirstIndexOf(eventMap[b].event_id)

UniqueKeys(s) ==
    \A i, j \in 1..Len(s) : i # j => ContentKey(s[i]) # ContentKey(s[j])

\* C4 as stated: among the records of one content key exactly the first
\* visited one is kept, whatever the key.
C4_FirstOfEveryKeyKept ==
    Merged =>
        /\ EncounterOrder
        /\ \A i \in 1..Len(eventMap) : (eventMap[i] \in Elems(deduped)) <=> KeyFirst(i)
        /\ UniqueKeys(deduped)

\* C4 (amended): the content pass visits the identity-deduplicated set in
\* encounter order; a record is kept exactly when its normalized title is not
\* empty and no earlier visited record has its content key; the kept records
\* stay in visiting order and no two of them share a content key.
C4_FirstSeenWins ==
    Merged =>
        /\ EncounterOrder
        /\ deduped = SelectSeqBy(eventMap,
              [r \in Elems(eventMap) |->
                  /\ NormTitle(r.event_title) # <<>>
                  /\ KeyFirst(CHOOSE i \in 1..Len(eventMap) : eventMap[i] = r)])
        /\ UniqueKeys(deduped)

\* a later record with the key of an earlier one and a newer capture time is discarded
C4_Witness ==
    /\ Merged
    /\ \E i, j \in 1..Len(eventMap) :
          /\ i < j
          /\ ContentKey(eventMap[i]) = ContentKey(eventMap[j])
          /\ DateGT(CrawlOf(eventMap[j]), CrawlOf(eventMap[i]))
          /\ eventMap[i] \in Elems(deduped)
          /\ eventMap[j] \notin Elems(deduped)

\* blank: empty or only whitespace
IsBlank(s) == Trim(s) = <<>>

\* C5 as stated: a record whose normalized title is blank is in the output of
\* neither pass.
C5_BlankTitleInNeitherPass ==
    Merged =>
        /\ \A r \in Elems(eventMap) : ~IsBlank(NormTitle(r.event_title))
        /\ \A r \in Elems(deduped) : ~IsBlank(NormTitle(r.event_title))

\* C5 (amended): a record whose normalized title is the empty string is never
\* in the output of the content pass; the identity pass does not look at the
\* title and keeps one record of every non-blank identifier.
C5_EmptyTitleNotInContentPass ==
    Merged =>
        /\ \A r \in Elems(deduped) : NormTitle(r.event_title) # <<>>
        /\ \A i \in 1..Len(allEvents) :
              ValidId(allEvents[i].event_id) => MapHas(eventMap, allEvents[i].event_id)

\* the identity pass emitted a record with an empty normalized title and the
\* content pass dropped it
C5_Witness ==
    /\ Merged
    /\ \E r \in Elems(eventMap) :
          /\ NormTitle(r.event_title) = <<>>
          /\ r \notin Elems(deduped)

\* same calendar month and same 0.2-degree bucket, by the crawler's fire rule
SameFireBucket(a, b) ==
    /\ a.event_date_utc.form = "iso" /\ b.event_date_utc.form = "iso"
    /\ FireDateBucket(a.event_date_utc) = FireDateBucket(b.event_date_utc)
    /\ a.latitude.kind = "numstr" /\ b.latitude.kind = "numstr"
    /\ a.longitude.kind = "numstr" /\ b.longitude.kind = "numstr"
    /\ FireCoordBucket(a.latitude.v) = FireCoordBucket(b.latitude.v)
    /\ FireCoordBucket(a.longitude.v) = FireCoordBucket(b.longitude.v)

\* two fire-category records with one normalized title, one month, one 0.2-degree bucket
FirePair(a, b) ==
    /\ a.event_category = Fire /\ b.event_category = Fire
    /\ NormTitle(a.event_title) = NormTitle(b.event_title)
    /\ NormTitle(a.event_title) # <<>>
    /\ SameFireBucket(a, b)

\* the same first ten characters of the date and the same 4-decimal coordinates
SameDayAndSpot(a, b) ==
    /\ DatePrefix(a.event_date_utc) = DatePrefix(b.event_date_utc)
    /\ ToFixed4(IF Truthy(a.latitude) THEN ParseFloat(a.latitude) ELSE Num(0))
         = ToFixed4(IF Truthy(b.latitude) THEN ParseFloat(b.latitude) ELSE Num(0))
    /\ ToFixed4(IF Truthy(a.longitude) THEN ParseFloat(a.longitude) ELSE Num(0))
         = ToFixed4(IF Truthy(b.longitude) THEN ParseFloat(b.longitude) ELSE Num(0))

SourceRecords ==
    IF dataFrom = "load" THEN Elems(pastFile) \cup Elems(mainFile)
    ELSE IF dataFrom = "test" THEN Elems(testFile)
    ELSE {}

\* C7 as stated: every event of disasterEvents has one of the 9 canonical
\* categories or Unknown.
C7_CategoryClosure ==
    \A e \in Elems(disasterEvents) : e.event_category \in CanonicalCategories \cup {"Unknown"}

\* C7 (amended): the loader copies event_category unchanged: every event of
\* disasterEvents carries the category string of the input record it was built
\* from, so its category is canonical or Unknown only if that record's was.
C7_CategoryCopied ==
    \A e \in Elems(disasterEvents) :
        \E r \in SourceRecords :
            /\ r.event_id = e.event_id
            /\ r.event_title = e.event_title
            /\ r.event_date_utc = e.event_date_utc
            /\ r.crawled_at = e.crawled_at
            /\ r.event_category = e.event_category

\* a loaded event carries a category outside the canonical set
C7_Witness ==
    /\ dataFrom = "load"
    /\ \E e \in Elems(disasterEvents) :
          e.event_category \notin CanonicalCategories \cup {"Unknown"}

NonZeroFinite(f) == f.kind = "num" /\ f.v # 0

\* C9: for every event of disasterEvents, produced by loadDisasterData or by
\* the loadTestData fallback, hasValidCoords is true if and only if the
\* sanitized latitude and longitude are both non-zero finite numbers.
C9_CoordinateSafety ==
    \A e \in Elems(disasterEvents) :
        e.hasValidCoords <=> (NonZeroFinite(e.latitude) /\ NonZeroFinite(e.longitude))

BadRawCoord(raw) == raw.kind \in {"null", "empty", "text"}

\* C10: every record that reaches the preprocessing step is retained, and a
\* raw latitude or longitude that is null, absent, empty or non-numeric becomes
\* 0 with hasValidCoords false; a lone record with latitude "" and longitude
\* "12.3" loads as one event with latitude 0 and hasValidCoords false.
C10_BadCoordinateKept ==
    (pc = "idle" /\ dataFrom = "load") =>
        /\ \A r \in Elems(deduped) :
              \E e \in Elems(disasterEvents) :
                  /\ e.event_id = r.event_id
                  /\ e.event_title = r.event_title
                  /\ BadRawCoord(r.latitude) => (e.latitude = Num(0) /\ ~e.hasValidCoords)
                  /\ BadRawCoord(r.longitude) => (e.longitude = Num(0) /\ ~e.hasValidCoords)
        /\ (/\ Len(allEvents) = 1
            /\ allEvents[1].latitude = RawEmpty
            /\ allEvents[1].longitude = Lon123
            /\ ValidId(allEvents[1].event_id)
            /\ ~IsBlank(allEvents[1].event_title)
            /\ NormTitle(allEvents[1].event_title) # <<>>) =>
               /\ Len(disasterEvents) = 1
               /\ disasterEvents[1].latitude = Num(0)
               /\ disasterEvents[1].longitude = Num(1230000)
               /\ ~disasterEvents[1].hasValidCoords

\* the record with latitude "" and longitude "12.3" was loaded and kept
C10_Witness ==
    /\ pc = "idle"
    /\ dataFrom = "load"
    /\ \E r \in Elems(deduped) :
          /\ r.latitude = RawEmpty
          /\ r.longitude = Lon123
          /\ \E e \in Elems(disasterEvents) :
                /\ e.event_id = r.event_id
                /\ e.latitude = Num(0)
                /\ e.longitude = Num(1230000)
                /\ ~e.hasValidCoords

\* C11: an event whose date string cannot be parsed after the double-UTC-suffix
\* repair gets the current time as its event timestamp and is kept; the
\* sanitizer drops no event because of its date: every record with a title
\* that is not blank comes out of it, and a record is dropped only when its
\* title is missing or blank.  Stated of the state a load has left without
\* an error.
C11_BadDateKept ==
    (pc = "idle" /\ dataFrom = "load" /\ errorHidden) =>
        /\ \A r \in Elems(deduped) :
              ~IsBlank(r.event_title) =>
                  \E e \in Elems(disasterEvents) :
                      /\ e.event_id = r.event_id
                      /\ e.event_date_utc = r.event_date_utc
                      /\ Unparseable(r.event_date_utc) => e.event_date = Num(Now)
        /\ Len(disasterEvents) = Len(SelectSeq(deduped, LAMBDA r : ~IsBlank(r.event_title)))
        /\ \A r \in SourceRecords :
              /\ Len(Preprocess(<<[r EXCEPT !.event_date_utc = DateBad]>>))
                     = Len(Preprocess(<<r>>))
              /\ Preprocess(<<[r EXCEPT !.event_title = <<" ">>]>>) = <<>>
              /\ Preprocess(<<[r EXCEPT !.event_title = <<>>]>>) = <<>>

\* a record with the date "unknown" was loaded and is shown as of now
C11_Witness ==
    /\ pc = "idle"
    /\ dataFrom = "load"
    /\ errorHidden
    /\ \E r \in Elems(deduped) :
          /\ r.event_date_utc = DateBad
          /\ \E e \in Elems(disasterEvents) :
                /\ e.event_id = r.event_id
                /\ e.event_date_utc = DateBad
                /\ e.event_date = Num(Now)

(***************************************************************************)
(* The normalizer applied to raw category strings                          *)
(***************************************************************************)
wFire == <<"F", "i", "r", "e">>
wOutdoorFire == <<"O", "u", "t", "d", "o", "o", "r", " ", "f", "i", "r", "e">>
wBuiltFire == <<"F", "i", "r", "e", " ", "i", "n", " ", "b", "u", "i", "l", "t", " ", "e", "n", "v", "i", "r", "o", "n", "m", "e", "n", "t">>
wWeather == <<"W", "e", "a", "t", "h", "e", "r">>
wRainfall == <<"E", "x", "t", "r", "e", "m", "e", " ", "r", "a", "i", "n", "f", "a", "l", "l">>
wLightning == <<"L", "i", "g", "h", "t", "n", "i", "n", "g">>
wSocial == <<"S", "o", "c", "i", "a", "l", " ", "i", "n", "c", "i", "d", "e", "n", "t">>
wWar == <<"W", "a", "r">>
wGeological == <<"G", "e", "o", "l", "o", "g", "i", "c", "a", "l">>
wEarthquake == <<"E", "a", "r", "t", "h", "q", "u", "a", "k", "e">>
wHydrological == <<"H", "y", "d", "r", "o", "l", "o", "g", "i", "c", "a", "l">>
wFlood == <<"F", "l", "o", "o", "d">>
wFlashFlood == <<"F", "l", "a", "s", "h", " ", "f", "l", "o", "o", "d">>

CategoryWords ==
    {wFire, wOutdoorFire, wBuiltFire, wWeather, wRainfall, wLightning, wSocial, wWar, wGeological, wEarthquake, wHydrological, wFlood, wFlashFlood}

\* "<MainCategory> - <SubCategory>": the parts joined by " - "
RECURSIVE JoinParts(_)
JoinParts(parts) ==
    IF Len(parts) = 0 THEN <<>>
    ELSE IF Len(parts) = 1 THEN parts[1]
    ELSE parts[1] \o <<" ", "-", " ">> \o JoinParts(Tail(parts))

RawCategories ==
    {JoinParts(parts) : parts \in UNION {[1..k -> CategoryWords] : k \in 1..MaxParts}}
    \cup {JoinParts(<<wSocial, wOutdoorFire, wOutdoorFire, wWar>>),
          JoinParts(<<wGeological, wEarthquake, wWeather, wLightning>>)}

InitNormalizer ==
    /\ rawCategory \in RawCategories
    /\ category = "pending"
    /\ mainFile = <<>>
    /\ pastFile = <<>>
    /\ testFile = <<>>
    /\ pc = "idle"
    /\ mainData = <<>>
    /\ pastData = <<>>
    /\ eventMap = <<>>
    /\ deduped = <<>>
    /\ disasterEvents = <<>>
    /\ lastUpdateTime = "null"
    /\ errorHidden = TRUE
    /\ dataFrom = "none"
    /\ filteredData = <<>>
    /\ categoryFilter = ""
    /\ statsClusters = <<>>
    /\ riskPassClusters = <<>>
    /\ riskAlertHidden = TRUE
    /\ riskMessage = NoMessage
    /\ riskAnimationMarkers = <<>>
    /\ map = TRUE
    /\ endDateCutsNow = FALSE
    /\ sortedData = <<>>
    /\ dateInputsSet = FALSE
    /\ currentEvents = <<>>
    /\ pastEvents = <<>>
    /\ today = Now
    /\ runDay = Now
    /\ currentSort = NoSort
    /\ sliderValue = 100
    /\ isPlaying = FALSE
    /\ animationInterval = 0
    /\ timers = {}
    /\ currentTimeIndex = 0
    /\ animationSpeed = 700
    /\ calls = <<>>

\* one call of the normalizer
Normalize ==
    /\ category = "pending"
    /\ category' = NormalizeCategory(rawCategory)
    /\ UNCHANGED <<rawCategory, loaderVars, viewVars, mergeVars, tableVars, animVars, overlapVars>>

NextNormalizer == Normalize

SpecNormalizer == InitNormalizer /\ [][NextNormalizer]_vars

MatchingAliases(s) == {i \in 1..Len(aliases) : PatternMatches(aliases[i], s)}

\* C8: the normalizer returns the category of the first pattern of the ordered
\* list that matches the lower-cased raw string, and Unknown when none matches;
\* "Fire - Outdoor fire" gives Fire in built environment and
\* "Weather - Extreme rainfall" gives Flood.
C8_FirstMatchWins ==
    category # "pending" =>
        LET M == MatchingAliases(ToLowerCase(rawCategory))
        IN /\ M = {} => category = "Unknown"
           /\ M # {} => category = aliases[CHOOSE i \in M : \A k \in M : i <= k].category
           /\ rawCategory = JoinParts(<<wFire, wOutdoorFire>>) => category = Fire
           /\ rawCategory = JoinParts(<<wWeather, wRainfall>>) => category = "Flood"

\* two patterns with different categories match one string and the earlier decided
C8_Witness ==
    /\ category # "pending"
    /\ \E i, k \in MatchingAliases(ToLowerCase(rawCategory)) :
          /\ i < k
          /\ aliases[i].category # aliases[k].category
          /\ category = aliases[i].category

(***************************************************************************)
(* The dashboard after a finished load: filters, statistics, risk alerts   *)
(***************************************************************************)
DigitChars == <<"0", "1", "2", "3", "4", "5", "6", "7", "8", "9">>
NumStr(i) == <<DigitChars[(i \div 10) + 1], DigitChars[(i % 10) + 1]>>

\* places along one meridian, one of them without a latitude
GeoPoints ==
    { [lat |-> RawNum(1000000), cat |-> Fire],
      [lat |-> RawNum(1040000), cat |-> "Flood"],
      [lat |-> RawNum(1120000), cat |-> Fire],
      [lat |-> RawNum(1150000), cat |-> "Flood"],
      [lat |-> RawEmpty, cat |-> "Flood"] }

\* events.json with one event per place, dated on consecutive days of the last 30
GeoFile(places) ==
    [i \in 1..Len(places) |->
        Ev(<<"g">> \o NumStr(i), <<"g">>, DateIso(2025, 9, 20 + i), places[i].lat, Lon123,
           CrawlAt(9400), places[i].cat)]

RecentKinds == {"iso", "dbl", "bad"}

\* a date of the last week, written well, with a doubled UTC suffix, or unparseable
RecentDateAs(kind) ==
    CASE kind = "iso" -> DateIso(2025, 9, 28)
      [] kind = "dbl" -> DateDbl(2025, 9, 28)
      [] OTHER -> DateBad

\* n events within 0.1 degree around lat0, the last k of them dated in the last week
Burst(tag, lat0, n, k, kind, oldDate, cat) ==
    [i \in 1..n |->
        Ev(<<tag>> \o NumStr(i), <<tag>>,
           IF i <= n - k THEN oldDate ELSE RecentDateAs(kind),
           RawNum(lat0 + 100 * i), Lon123, CrawlAt(9400),
           IF i <= n - k THEN cat ELSE "Flood")]

BurstSizes == (RiskMinEvents - 1)..(RiskMinEvents + MaxExtra)

\* events.json with a burst around latitude 10, possibly one around latitude
\* 12, and one event that is older than 30 days
BurstFile(nA, kA, kind, nB, kB, firstIsA) ==
    Burst("a", 1000000, nA, kA, kind,
          IF firstIsA THEN DateIso(2025, 9, 10) ELSE DateIso(2025, 9, 12), Fire)
    \o Burst("b", 1200000, nB, kB, "iso", DateIso(2025, 9, 11), "Earthquake")
    \o <<Ev(<<"o">>, <<"o">>, DateIso(2025, 8, 1), RawNum(1000000), Lon123, CrawlAt(9400),
            "War")>>

\* one burst with its recent dates written in each way, or two bursts of
\* well-written dates in either order of creation
RiskFiles ==
    {GeoFile(places) : places \in SeqsUpTo(GeoPoints, MaxGeo)}
    \cup {BurstFile(nA, kA, kind, 0, 0, TRUE) :
            nA \in BurstSizes, kA \in (RiskMinRecent - 1)..RiskMinRecent,
            kind \in RecentKinds}
    \cup {BurstFile(nA, kA, "iso", nB, RiskMinRecent, firstIsA) :
            nA \in BurstSizes, kA \in (RiskMinRecent - 1)..RiskMinRecent,
            nB \in RiskMinEvents..(RiskMinEvents + MaxExtra), firstIsA \in BOOLEAN}

\* the state after a load of events.json (past_events.json empty) has finished
InitAfterLoad ==
    /\ pastFile = <<>>
    /\ testFile = <<>>
    /\ pc = "idle"
    /\ mainData = mainFile
    /\ pastData = <<>>
    /\ eventMap = IdentityPass(mainData)
    /\ deduped = ContentPass(eventMap)
    /\ disasterEvents = Preprocess(deduped)
    /\ lastUpdateTime = "stamp"
    /\ errorHidden = TRUE
    /\ dataFrom = "load"
    /\ rawCategory = <<>>
    /\ category = "pending"
    /\ map = TRUE
    /\ endDateCutsNow \in
          IF \E i \in 1..Len(disasterEvents) : Unparseable(disasterEvents[i].event_date_utc)
          THEN BOOLEAN ELSE {FALSE}
    /\ currentEvents = <<>>
    /\ pastEvents = <<>>
    /\ today = Now
    /\ runDay = Now
    /\ currentSort = NoSort
    /\ sliderValue = 100
    /\ isPlaying = FALSE
    /\ animationInterval = 0
    /\ timers = {}
    /\ currentTimeIndex = 0
    /\ animationSpeed = 700
    /\ calls = <<>>
    /\ categoryFilter = ""
    /\ dateInputsSet = (disasterEvents # <<>>)
    /\ filteredData = ApplyCurrentFilters(disasterEvents, "", endDateCutsNow)
    /\ sortedData = filteredData
    /\ statsClusters = UpdateStats(filteredData)
    /\ LET risk == CheckRiskAlerts(filteredData, map, NoMessage, <<>>)
       IN /\ riskPassClusters = risk.clusters
          /\ riskAlertHidden = risk.hidden
          /\ riskMessage = risk.message
          /\ riskAnimationMarkers = risk.markers

InitRisk ==
    /\ mainFile \in RiskFiles
    /\ InitAfterLoad

\* the options populateFilters put into #categoryFilter
FilterOptions == {""} \cup {disasterEvents[i].event_category : i \in 1..Len(disasterEvents)}

\* change handler of #categoryFilter: applyCurrentFilters
CategoryFilterChange(c) ==
    /\ c \in FilterOptions
    /\ c # categoryFilter
    /\ categoryFilter' = c
    /\ LET fd == FilterView(disasterEvents, sliderValue, c, dateInputsSet, endDateCutsNow,
                            filteredData)
           risk == CheckRiskAlerts(fd, map, riskMessage, riskAnimationMarkers)
       IN /\ filteredData' = fd
          /\ sortedData' \in SortResults(fd, currentSort)
          /\ statsClusters' = UpdateStats(fd)
          /\ riskPassClusters' = risk.clusters
          /\ riskAlertHidden' = risk.hidden
          /\ riskMessage' = risk.message
          /\ riskAnimationMarkers' = risk.markers
    /\ UNCHANGED <<map, endDateCutsNow, currentSort, sliderValue, dateInputsSet>>
    /\ UNCHANGED <<loaderVars, crawlerVars, mergeVars, animVars, overlapVars>>

NextRisk == \E c \in {"", Fire, "Flood", "Earthquake", "War"} : CategoryFilterChange(c)

SpecRisk == InitRisk /\ [][NextRisk]_vars

\* places along one meridian, each less than 0.5 degree from the next, and a
\* place without a latitude
ChainPoints ==
    { [lat |-> RawNum(1000000), cat |-> Fire],
      [lat |-> RawNum(1049000), cat |-> "Flood"],
      [lat |-> RawNum(1074000), cat |-> Fire],
      [lat |-> RawNum(1090000), cat |-> "Flood"],
      [lat |-> RawEmpty, cat |-> "Flood"] }

\* events.json with one event near latitude 10.0, five near 10.45 and 24 near
\* 10.85, the last five of them dated in the last week
DriftFile ==
    Burst("d", 1000000, 1, 0, "iso", DateIso(2025, 9, 10), Fire)
    \o Burst("e", 1045000, 5, 0, "iso", DateIso(2025, 9, 10), Fire)
    \o Burst("f", 1085000, 24, RiskMinRecent, "iso", DateIso(2025, 9, 10), Fire)

ChainFiles == {GeoFile(places) : places \in SeqsUpTo(ChainPoints, MaxChain)} \cup {DriftFile}

InitChain ==
    /\ mainFile \in ChainFiles
    /\ InitAfterLoad

SpecChain == InitChain /\ [][NextRisk]_vars

(***************************************************************************)
(* Properties of the clustering passes and the risk alert                  *)
(***************************************************************************)
\* the members of a cluster that were pushed before the event at position k
Earlier(members, k) == SelectSeq(members, LAMBDA x : x < k)

\* clusters is a division of the positions todo (ascending) into non-empty
\* ascending sequences, ordered by their first members
DividesInOrder(todo, clusters) ==
    /\ \A j \in 1..Len(clusters) :
          /\ clusters[j] # <<>>
          /\ \A i \in 1..Len(clusters[j]) : \E t \in 1..Len(todo) : todo[t] = clusters[j][i]
          /\ \A i \in 1..(Len(clusters[j]) - 1) : clusters[j][i] < clusters[j][i + 1]
    /\ \A t \in 1..Len(todo) :
          Cardinality({j \in 1..Len(clusters) :
                          \E i \in 1..Len(clusters[j]) : clusters[j][i] = todo[t]}) = 1
    /\ \A j \in 1..(Len(clusters) - 1) : clusters[j][1] < clusters[j + 1][1]

\* all events have finite coordinates and lie on one meridian
OnOneMeridian(events) ==
    \A i \in 1..Len(events) :
        /\ FiniteCoords(events[i])
        /\ events[i].longitude = events[1].longitude

\* on one meridian the distance to the mean of the members is the difference
\* of the latitudes: |lat - sum / n| <= r  iff  |n lat - sum| <= n r
MeanInRange(events, k, members, radius) ==
    Abs(Len(members) * events[k].latitude.v - SumLat(events, members))
        <= Len(members) * radius

\* every event joined the first cluster, in creation order, whose centroid at
\* that moment was within the radius, and started a cluster at the end of the
\* list exactly when no cluster that existed at that moment was
GreedyLaw(events, todo, clusters, radius) ==
    /\ DividesInOrder(todo, clusters)
    /\ \A j \in 1..Len(clusters) : \A i \in 1..Len(clusters[j]) :
          LET k == clusters[j][i]
          IN /\ i > 1 => MeanInRange(events, k, SubSeq(clusters[j], 1, i - 1), radius)
             /\ \A c \in 1..Len(clusters) :
                   (Earlier(clusters[c], k) # <<>> /\ (c < j \/ i = 1) /\ c # j) =>
                       ~MeanInRange(events, k, Earlier(clusters[c], k), radius)

SameInput == RecentIndices(filteredData) = Indices(Len(filteredData))

\* radii between 0.3 and 1.5 degrees, the two of the code among them
Radii == {30000, RiskClusterRadius, StatsClusterRadius, 150000}

\* C13 as stated: for a fixed input sequence the clustering with the smaller
\* radius never yields fewer clusters than the clustering with the larger one.
C13_RadiusMonotone ==
    SameInput => Len(riskPassClusters) >= Len(statsClusters)

\* C13 amended: for an input sequence of at most three events, the smaller of
\* two radii never yields fewer clusters than the larger one.
C13_MonotoneUpToThree ==
    (SameInput /\ Len(filteredData) <= 3) =>
        /\ Len(riskPassClusters) >= Len(statsClusters)
        /\ \A r1 \in Radii : \A r2 \in Radii :
              r1 < r2 =>
                  Len(GreedyClusters(filteredData, Indices(Len(filteredData)), r1))
                      >= Len(GreedyClusters(filteredData, Indices(Len(filteredData)), r2))

\* three events that the radius 1.0 joins and the radius 0.5 does not
C13_Witness ==
    /\ SameInput
    /\ Len(filteredData) = 3
    /\ Len(riskPassClusters) = 2
    /\ Len(statsClusters) = 1

\* C14: an event with hasValidCoords false is a member of no cluster of the
\* statistics pass (radius 1.0) and of no cluster of the risk pass (radius 0.5).
C14_InvalidCoordsNotClustered ==
    /\ \A j \in 1..Len(statsClusters) : \A i \in 1..Len(statsClusters[j]) :
          filteredData[statsClusters[j][i]].hasValidCoords
    /\ \A j \in 1..Len(riskPassClusters) : \A i \in 1..Len(riskPassClusters[j]) :
          filteredData[riskPassClusters[j][i]].hasValidCoords

\* the members of a cluster whose event timestamp (event_date) lies within the
\* last 7 days
TimestampInWeek(fd, members) ==
    {i \in 1..Len(members) :
        /\ fd[members[i]].event_date.kind = "num"
        /\ Now - fd[members[i]].event_date.v <= RecentWeekDays}

\* at least 30 members, at least 5 of them with a timestamp of the last 7 days
QualifiesByTimestamp(fd, members) ==
    /\ Len(members) >= RiskMinEvents
    /\ Cardinality(TimestampInWeek(fd, members)) >= RiskMinRecent

\* the clusters of the last risk pass that were treated as risk clusters: the
\* alert is shown exactly when there is one
AlertShown == ~riskAlertHidden

\* C15: a cluster of the risk pass is a risk cluster if and only if it has at
\* least 30 members and at least 5 members whose event timestamp lies within
\* the last 7 days; so the alert is shown exactly when such a cluster exists.
C15_RiskClusterRule ==
    AlertShown <=>
        \E j \in 1..Len(riskPassClusters) :
            QualifiesByTimestamp(filteredData, riskPassClusters[j])

\* the positions of the clusters that passed the riskClusters filter
Qualifying ==
    {j \in 1..Len(riskPassClusters) : IsRiskCluster(filteredData, riskPassClusters[j])}

CategoriesOf(fd, members) == {fd[members[i]].event_category : i \in 1..Len(members)}

\* the message reports the member count, the centroid and the distinct
\* categories of the cluster at position j
MessageIsOf(j) ==
    /\ riskMessage.eventCount = Len(riskPassClusters[j])
    /\ riskMessage.center.n = Len(riskPassClusters[j])
    /\ riskMessage.center.latSum = SumLat(filteredData, riskPassClusters[j])
    /\ riskMessage.center.lngSum = SumLng(filteredData, riskPassClusters[j])
    /\ {riskMessage.categories[i] : i \in 1..Len(riskMessage.categories)}
           = CategoriesOf(filteredData, riskPassClusters[j])
    /\ \A a \in 1..Len(riskMessage.categories) : \A b \in 1..Len(riskMessage.categories) :
          riskMessage.categories[a] = riskMessage.categories[b] => a = b

\* C16: when at least one cluster qualifies, the alert is shown and its
\* message is that of a qualifying cluster with the largest member count among
\* the qualifying clusters: member count, centroid and distinct categories are
\* those of that one cluster.
C16_PrimaryIsLargest ==
    Qualifying # {} =>
        /\ AlertShown
        /\ \E j \in Qualifying :
              /\ \A q \in Qualifying : Len(riskPassClusters[q]) <= Len(riskPassClusters[j])
              /\ MessageIsOf(j)

\* two clusters qualify, the larger one was created second and is the primary
C16_Witness ==
    /\ Qualifying = {1, 2}
    /\ Len(riskPassClusters[1]) < Len(riskPassClusters[2])
    /\ AlertShown
    /\ MessageIsOf(2)
    /\ Len(riskMessage.categories) = 2

\* the risk markers that stand on the centroid of the cluster at position j
MarkersOf(j) ==
    {i \in 1..Len(riskAnimationMarkers) :
        /\ riskAnimationMarkers[i].eventCount = Len(riskPassClusters[j])
        /\ riskAnimationMarkers[i].center.latSum = SumLat(filteredData, riskPassClusters[j])
        /\ riskAnimationMarkers[i].center.lngSum = SumLng(filteredData, riskPassClusters[j])}

\* C17: after checkRiskAlerts every qualifying cluster has exactly one risk
\* marker, the primary one as primary and every other one as secondary,
\* whatever the position of the largest cluster in the cluster list.
C17_OneMarkerEach ==
    map =>
        /\ \A j \in Qualifying : Cardinality(MarkersOf(j)) = 1
        /\ Len(riskAnimationMarkers) = Cardinality(Qualifying)

\* C18: after a call of checkRiskAlerts in which no cluster meets the
\* thresholds (by the filter of the code or by the event timestamps), also
\* when there is no event of the last 30 days, the alert panel is hidden and
\* no risk marker is left, even if the call before had shown an alert.
C18_NoAlertWithoutRiskCluster ==
    (\/ Qualifying = {}
     \/ \A j \in 1..Len(riskPassClusters) :
            ~QualifiesByTimestamp(filteredData, riskPassClusters[j])) =>
        /\ riskAlertHidden
        /\ riskAnimationMarkers = <<>>

\* a filter was chosen that leaves no event of the last 30 days, after an alert
\* had been shown (its message is still in the hidden panel)
C18_Witness ==
    /\ categoryFilter # ""
    /\ filteredData # <<>>
    /\ RecentIndices(filteredData) = <<>>
    /\ Qualifying = {}
    /\ riskMessage # NoMessage
    /\ riskAlertHidden
    /\ riskAnimationMarkers = <<>>

\* the README's threshold: 5 or more events in one area
ReadmeMinEvents == 5

\* the date the event record carries (event_date_utc, or crawled_at when there
\* is none) reads as a time of the last 7 days
CarriedDateInWeek(e) ==
    CASE e.event_date_utc.form = "iso" ->
             Now - DayNumber(e.event_date_utc.y, e.event_date_utc.m, e.event_date_utc.d)
                 <= RecentWeekDays
      [] e.event_date_utc.form = "absent" ->
             e.crawled_at.kind = "time" /\ Now - e.crawled_at.t <= RecentWeekDays
      [] OTHER -> FALSE

PartitionDays == 30

\* scraped records around the 30-day boundary; a later capture of x carries an
\* older date
ScrapeRecords ==
    { Ev(idX, <<"a">>, DateIso(2025, 9, 1), Lat1, Lon1, CrawlAt(1), Fire),
      Ev(idX, <<"a">>, DateIso(2025, 8, 31), Lat1, Lon1, CrawlAt(2), Fire),
      Ev(idY, <<"b">>, DateIso(2025, 9, 2), Lat2, Lon2, CrawlAt(1), "Flood"),
      Ev(idY, <<"b">>, DateIso(2025, 9, 20), Lat2, Lon2, CrawlAt(1), "Flood"),
      Ev(<<"z">>, <<"b">>, DateIso(2025, 9, 1), Lat2, Lon2, CrawlAbsent, "Flood") }

\* the age of an event in days on a given day
EventAge(e, day) == day - ParseDate(e.event_date_utc).v

\* mutant: events that are exactly 30 days old go to the past segment
CurrentSegmentYounger(events, day) ==
    SelectSeq(events, LAMBDA e : EventAge(e, day) < PartitionDays)

\* age <= 30 days: current
CurrentSegment(events, day) ==
    SelectSeq(events, LAMBDA e : EventAge(e, day) <= PartitionDays)

\* age > 30 days: past
PastSegment(events, day) ==
    SelectSeq(events, LAMBDA e : EventAge(e, day) > PartitionDays)

\* one run: the stored segments seed the identity pass, the scraped records
\* are merged in, and the full set is split again by age
MergeRun(batch) ==
    /\ runDay' = today
    /\ LET merged == IdentityPass(pastEvents \o currentEvents \o batch)
       IN /\ currentEvents' = CurrentSegment(merged, today)
          /\ pastEvents' = PastSegment(merged, today)
    /\ UNCHANGED <<today, loaderVars, crawlerVars, viewVars, tableVars, animVars, overlapVars>>

\* a day passes between two runs
DayPasses ==
    /\ today < Now + MaxDays
    /\ today' = today + 1
    /\ UNCHANGED <<currentEvents, pastEvents, runDay, loaderVars, crawlerVars, viewVars,
                   tableVars, animVars, overlapVars>>

NextMerge ==
    \/ \E batch \in SeqsUpTo(ScrapeRecords, MaxScrape) : MergeRun(batch)
    \/ DayPasses

\* the store is empty before the first run; the page has loaded nothing
InitMerge ==
    /\ pastFile = <<>>
    /\ mainFile = <<>>
    /\ testFile = <<>>
    /\ Init

SpecMerge == InitMerge /\ [][NextMerge]_vars

IdsOf(events) == {events[i].event_id : i \in 1..Len(events)}

\* every stored event is in the segment its age on the day of the run asks
\* for, and no identifier occurs twice in the two segments together
Partitioned(cur, old, day) ==
    /\ \A i \in 1..Len(cur) : EventAge(cur[i], day) <= PartitionDays
    /\ \A i \in 1..Len(old) : EventAge(old[i], day) > PartitionDays
    /\ \A i \in 1..Len(cur \o old) : \A j \in 1..Len(cur \o old) :
          (cur \o old)[i].event_id = (cur \o old)[j].event_id => i = j

\* C20: after the merge step has split the store again, every event of the
\* store and of the scrape is in exactly one segment, in current iff its age
\* is <= 30 days and in past iff its age is > 30 days, and identifiers are
\* unique across the two segments together.
C20_TwoSegments ==
    [][ /\ Partitioned(currentEvents', pastEvents', runDay')
        /\ runDay' = today' => IdsOf(currentEvents \o pastEvents) \subseteq IdsOf(currentEvents' \o pastEvents')
      ]_vars

\* a run on the next day has moved an event that was 30 days old into the
\* past segment while an event that is now 30 days old stays current
C20_Witness ==
    /\ runDay = Now + 1
    /\ \E i \in 1..Len(pastEvents) : EventAge(pastEvents[i], runDay) = PartitionDays + 1
    /\ \E i \in 1..Len(currentEvents) : EventAge(currentEvents[i], runDay) = PartitionDays

(***************************************************************************)
(* The page with its table controls: loads, sorting, slider, filters       *)
(***************************************************************************)
\* records that differ in date (one has none that parses), title and latitude
ViewRecords ==
    { Ev(idX, <<"b">>, D1, Lat2, Lon1, CrawlAt(1), Fire),
      Ev(idY, <<"A", "!">>, DateBad, Lat1, Lon1, CrawlAt(1), "Flood") }

\* test_data.json: nothing, a well-dated record, records without a valid date
ViewTestFiles ==
    { <<>>,
      <<Ev(idX, <<"b">>, D2, Lat1, Lon1, CrawlAt(1), "Flood")>>,
      <<Ev(idX, <<"b">>, D2, Lat1, Lon1, CrawlAt(1), "Flood"),
        Ev(idY, <<"a">>, DateBad, Lat2, Lon1, CrawlAt(1), "Flood"),
        Ev(<<"z">>, <<"c">>, D1, RawNum(0), Lon1, CrawlAt(1), Fire)>> }

InitView ==
    /\ mainFile \in SeqsUpTo(ViewRecords, MaxView)
    /\ pastFile = <<>>
    /\ testFile \in ViewTestFiles
    /\ InitGlobals

\* the tail of applyCurrentFilters for the slider at percent and the category
\* filter c: filteredData, sortedData, updateStats, checkRiskAlerts
ApplyFilters(percent, c, inputsSet) ==
    LET fd == FilterView(disasterEvents, percent, c, inputsSet, endDateCutsNow, filteredData)
        risk == CheckRiskAlerts(fd, map, riskMessage, riskAnimationMarkers)
    IN /\ filteredData' = fd
       /\ sortedData' \in SortResults(fd, currentSort')
       /\ statsClusters' = UpdateStats(fd)
       /\ riskPassClusters' = risk.clusters
       /\ riskAlertHidden' = risk.hidden
       /\ riskMessage' = risk.message
       /\ riskAnimationMarkers' = risk.markers

\* mutant: the third click keeps the descending order
NextDirectionTwoStates(sort, column) ==
    IF sort.column = column /\ sort.direction = "asc" THEN "desc"
    ELSE IF sort.column = column /\ sort.direction = "desc" THEN "desc"
    ELSE "asc"

\* sortTable: the direction the click on a column header selects
NextDirection(sort, column) ==
    IF sort.column = column
    THEN IF sort.direction = "asc" THEN "desc"
         ELSE IF sort.direction = "desc" THEN "null"
         ELSE "asc"
    ELSE "asc"

\* sortTable(column)
SortTable(column) ==
    /\ LET direction == NextDirection(currentSort, column)
       IN IF direction = "null"
          THEN /\ currentSort' = NoSort
               /\ sortedData' = filteredData
          ELSE /\ currentSort' = [column |-> column, direction |-> direction]
               /\ sortedData' \in SortResults(filteredData, currentSort')
    /\ UNCHANGED <<sliderValue, dateInputsSet, viewVars, loaderVars, crawlerVars, mergeVars,
                   animVars, overlapVars>>

\* the user moves the time slider: its input handler is applyCurrentFilters
SliderInput(percent) ==
    /\ percent # sliderValue
    /\ sliderValue' = percent
    /\ UNCHANGED <<currentSort, dateInputsSet, categoryFilter, map, endDateCutsNow>>
    /\ ApplyFilters(percent, categoryFilter, dateInputsSet)
    /\ UNCHANGED <<loaderVars, crawlerVars, mergeVars, animVars, overlapVars>>

\* resetFilters
ResetFilters ==
    /\ categoryFilter' = ""
    /\ dateInputsSet' = FALSE
    /\ sliderValue' = 100
    /\ currentSort' = NoSort
    /\ ApplyFilters(100, "", FALSE)
    /\ UNCHANGED <<map, endDateCutsNow>>
    /\ UNCHANGED <<loaderVars, crawlerVars, mergeVars, animVars, overlapVars>>

SliderStops == {0, 50, 100}

NextView ==
    \/ Next
    \/ \E column \in SortColumns : SortTable(column)
    \/ \E percent \in SliderStops : SliderInput(percent)
    \/ \E c \in {"", Fire, "Flood"} : CategoryFilterChange(c)
    \/ ResetFilters

SpecView == InitView /\ [][NextView]_vars

(***************************************************************************)
(* Overlapping loads: the load handler, the auto-refresh timer and the      *)
(* visibilitychange handler each call loadDisasterData without waiting for  *)
(* a call that is still in flight                                           *)
(***************************************************************************)
\* events.json as the pipeline publishes it, one version after the other
OverlapVersions ==
    << <<Ev(idX, <<"b">>, D1, Lat2, Lon1, CrawlAt(1), Fire)>>,
       <<Ev(idX, <<"b">>, D1, Lat2, Lon1, CrawlAt(1), Fire),
         Ev(idY, <<"a">>, D2, Lat1, Lon1, CrawlAt(2), "Flood")>> >>

InitOverlap ==
    /\ mainFile = OverlapVersions[1]
    /\ pastFile = <<>>
    /\ testFile = <<>>
    /\ InitGlobals

\* the pipeline publishes the next version of events.json
Publish ==
    /\ \E k \in 1..(Len(OverlapVersions) - 1) :
          /\ mainFile = OverlapVersions[k]
          /\ mainFile' = OverlapVersions[k + 1]
    /\ UNCHANGED <<pastFile, testFile, pc, mainData, pastData, eventMap, deduped,
                   disasterEvents, lastUpdateTime, errorHidden, dataFrom>>
    /\ UNCHANGED <<crawlerVars, viewVars, mergeVars, tableVars, animVars, overlapVars>>

\* a call of loadDisasterData up to its first await
StartCall ==
    /\ Len(calls) < MaxCalls
    /\ calls' = Append(calls, [pc |-> "fetchMain", mainData |-> <<>>, deduped |-> <<>>])
    /\ errorHidden' = TRUE
    /\ UNCHANGED <<mainFile, pastFile, testFile, pc, mainData, pastData, eventMap, deduped,
                   disasterEvents, lastUpdateTime, dataFrom>>
    /\ UNCHANGED <<crawlerVars, viewVars, mergeVars, tableVars, animVars>>

\* events.json arrives for call i and parses
CallMainResponse(i) ==
    /\ calls[i].pc = "fetchMain"
    /\ calls' = [calls EXCEPT ![i].pc = "fetchPast", ![i].mainData = mainFile]
    /\ UNCHANGED <<loaderVars, crawlerVars, viewVars, mergeVars, tableVars, animVars>>

\* the catch block of call i: the fallback is tried when nothing is loaded
CallFail(i) ==
    /\ calls[i].pc = "fetchMain"
    /\ errorHidden' = FALSE
    /\ calls' = [calls EXCEPT ![i].pc = IF Len(disasterEvents) = 0 THEN "fetchTest"
                                        ELSE "failed"]
    /\ UNCHANGED <<mainFile, pastFile, testFile, pc, mainData, pastData, eventMap, deduped,
                   disasterEvents, lastUpdateTime, dataFrom>>
    /\ UNCHANGED <<crawlerVars, viewVars, mergeVars, tableVars, animVars>>

\* loadTestData of call i: test_data.json answers with an array, or not
CallTestResponse(i, ok) ==
    /\ calls[i].pc = "fetchTest"
    /\ calls' = [calls EXCEPT ![i].pc = "failed"]
    /\ UNCHANGED <<mainFile, pastFile, testFile, pc, mainData, pastData, eventMap, deduped,
                   lastUpdateTime, errorHidden>>
    /\ UNCHANGED <<crawlerVars, mergeVars, animVars>>
    /\ IF ok
       THEN /\ disasterEvents' = [k \in 1..Len(testFile) |-> SanitizeTest(testFile[k])]
            /\ dataFrom' = "test"
            /\ InitializeData(disasterEvents')
       ELSE UNCHANGED <<disasterEvents, dataFrom, viewVars, tableVars>>

\* past_events.json answers for call i: merge and the two passes
CallPastResponse(i, ok) ==
    /\ calls[i].pc = "fetchPast"
    /\ calls' = [calls EXCEPT
                    ![i].pc = "fetchUpdate",
                    ![i].deduped = ContentPass(IdentityPass(
                                       (IF ok THEN pastFile ELSE <<>>) \o calls[i].mainData))]
    /\ UNCHANGED <<loaderVars, crawlerVars, viewVars, mergeVars, tableVars, animVars>>

\* last_update.txt answers for call i: preprocessing, sort, initializeData
CallUpdateResponse(i, ok) ==
    /\ calls[i].pc = "fetchUpdate"
    /\ calls' = [calls EXCEPT ![i].pc = "done"]
    /\ lastUpdateTime' = IF ok THEN "stamp" ELSE lastUpdateTime
    /\ disasterEvents' = Preprocess(calls[i].deduped)
    /\ dataFrom' = "load"
    /\ UNCHANGED <<mainFile, pastFile, testFile, pc, mainData, pastData, eventMap, deduped,
                   errorHidden>>
    /\ UNCHANGED <<crawlerVars, mergeVars, animVars>>
    /\ InitializeData(disasterEvents')

NextOverlap ==
    \/ Publish
    \/ StartCall
    \/ \E i \in 1..Len(calls) : CallMainResponse(i)
    \/ \E i \in 1..Len(calls) : CallFail(i)
    \/ \E i \in 1..Len(calls), ok \in BOOLEAN : CallTestResponse(i, ok)
    \/ \E i \in 1..Len(calls), ok \in BOOLEAN : CallPastResponse(i, ok)
    \/ \E i \in 1..Len(calls), ok \in BOOLEAN : CallUpdateResponse(i, ok)

SpecOverlap == InitOverlap /\ [][NextOverlap]_vars

(***************************************************************************)
(* Playback: the play button, the keyboard shortcuts, the speed buttons    *)
(* and the interval timer that moves the time slider                       *)
(***************************************************************************)
\* events.json of the page the playback runs on
AnimFiles ==
    { <<>>,
      <<Ev(idX, <<"b">>, D1, Lat2, Lon1, CrawlAt(1), Fire)>>,
      <<Ev(idX, <<"b">>, D1, Lat2, Lon1, CrawlAt(1), Fire),
        Ev(idY, <<"a">>, D2, Lat1, Lon1, CrawlAt(2), "Flood"),
        Ev(<<"z">>, <<"c">>, DateIso(2025, 9, 20), Lat1, Lon2, CrawlAt(2), Fire)>> }

InitAnim ==
    /\ mainFile \in AnimFiles
    /\ InitAfterLoad

\* the speeds of the speed buttons
AnimationSpeeds == {300, 700}

TickStep == 5
SliderMax == 100

\* the handle setInterval returns: a timer id that is not active and is not
\* the handle the page still holds
FreshTimer(active) ==
    CHOOSE n \in 1..(Cardinality(active) + 2) : n \notin active /\ n # animationInterval

\* startAnimation, with the timers that are active when it is called
StartAnimation(active) ==
    /\ currentTimeIndex' = 0
    /\ animationInterval' = FreshTimer(active)
    /\ timers' = active \cup {animationInterval'}

\* toggleAnimation
ToggleAnimation ==
    /\ IF isPlaying
       THEN /\ timers' = timers \ {animationInterval}
            /\ isPlaying' = FALSE
            /\ UNCHANGED <<animationInterval, currentTimeIndex>>
       ELSE /\ StartAnimation(timers)
            /\ isPlaying' = TRUE
    /\ UNCHANGED <<animationSpeed, viewVars, tableVars, loaderVars, crawlerVars,
                   mergeVars, overlapVars>>

\* the keydown listener: Escape stops a running playback, space toggles it
KeyDown(key) ==
    /\ key = "Escape" => isPlaying
    /\ ToggleAnimation

\* mutant: the speed button starts a new timer without clearing the old one
SetAnimationSpeedNoClear(speed) ==
    /\ animationSpeed' = speed
    /\ IF isPlaying
       THEN StartAnimation(timers)
       ELSE UNCHANGED <<animationInterval, timers, currentTimeIndex>>
    /\ UNCHANGED <<isPlaying, viewVars, tableVars, loaderVars, crawlerVars,
                   mergeVars, overlapVars>>

\* setAnimationSpeed(speed): the restart is reached when the button with
\* data-speed = speed exists in the document (found)
SetAnimationSpeed(speed) ==
    /\ animationSpeed' = speed
    /\ \E found \in BOOLEAN :
          IF found /\ isPlaying
          THEN StartAnimation(timers \ {animationInterval})
          ELSE UNCHANGED <<animationInterval, timers, currentTimeIndex>>
    /\ UNCHANGED <<isPlaying, viewVars, tableVars, loaderVars, crawlerVars,
                   mergeVars, overlapVars>>

\* mutant: the playback stops one step early
TickStopsEarly(t) ==
    /\ t \in timers
    /\ currentTimeIndex' = currentTimeIndex + TickStep
    /\ UNCHANGED <<animationInterval, animationSpeed>>
    /\ UNCHANGED <<loaderVars, crawlerVars, mergeVars, overlapVars>>
    /\ IF currentTimeIndex' >= SliderMax
       THEN /\ timers' = timers \ {animationInterval}
            /\ isPlaying' = FALSE
            /\ UNCHANGED <<viewVars, tableVars>>
       ELSE /\ sliderValue' = currentTimeIndex'
            /\ UNCHANGED <<timers, isPlaying>>
            /\ UNCHANGED <<currentSort, dateInputsSet, categoryFilter, map, endDateCutsNow>>
            /\ ApplyFilters(sliderValue', categoryFilter, dateInputsSet)

\* the callback of the interval timer t
Tick(t) ==
    /\ t \in timers
    /\ currentTimeIndex' = currentTimeIndex + TickStep
    /\ UNCHANGED <<animationInterval, animationSpeed>>
    /\ UNCHANGED <<loaderVars, crawlerVars, mergeVars, overlapVars>>
    /\ IF currentTimeIndex' > SliderMax
       THEN /\ timers' = timers \ {animationInterval}
            /\ isPlaying' = FALSE
            /\ UNCHANGED <<viewVars, tableVars>>
       ELSE /\ sliderValue' = currentTimeIndex'
            /\ UNCHANGED <<timers, isPlaying>>
            /\ UNCHANGED <<currentSort, dateInputsSet, categoryFilter, map, endDateCutsNow>>
            /\ ApplyFilters(sliderValue', categoryFilter, dateInputsSet)

NextAnim ==
    \/ ToggleAnimation
    \/ \E key \in {"Escape", " "} : KeyDown(key)
    \/ \E speed \in AnimationSpeeds : SetAnimationSpeed(speed)
    \/ \E t \in timers : Tick(t)
    \/ \E percent \in SliderStops : SliderInput(percent)
    \/ ResetFilters

SpecAnim == InitAnim /\ [][NextAnim]_vars

(***************************************************************************)
(* An undisturbed playback: the user acts only while nothing plays, and    *)
(* the browser keeps calling the callback of an active interval timer      *)
(***************************************************************************)
StartPlayback == ~isPlaying /\ ToggleAnimation

IdleSpeedChange(speed) == ~isPlaying /\ SetAnimationSpeed(speed)

IdleSliderInput(percent) == ~isPlaying /\ SliderInput(percent)

TimerFires == \E t \in timers : Tick(t)

\* what a TimerFires step does to currentTimeIndex: no other step of
\* NextPlayback adds TickStep to it, and it is enabled exactly when TimerFires is
TimerAdvances == timers # {} /\ currentTimeIndex' = currentTimeIndex + TickStep

NextPlayback ==
    \/ StartPlayback
    \/ \E speed \in AnimationSpeeds : IdleSpeedChange(speed)
    \/ \E percent \in SliderStops : IdleSliderInput(percent)
    \/ TimerFires

SpecPlayback == InitAnim /\ [][NextPlayback]_vars /\ WF_currentTimeIndex(TimerAdvances)

(***************************************************************************)
(* Properties of the page: failed loads, default filters, sorting          *)
(***************************************************************************)
\* a step of the catch block of loadDisasterData, or the answer to the
\* test_data.json request the catch block issued
FailureStep ==
    \/ pc \in {"fetchMain", "fetchPast"} /\ pc' \in {"idle", "fetchTest"}
    \/ pc = "fetchTest" /\ pc' = "idle"

DataKept ==
    /\ disasterEvents' = disasterEvents
    /\ filteredData' = filteredData
    /\ sortedData' = sortedData

\* C21 as stated: when loadDisasterData fails after a dataset has been loaded,
\* disasterEvents, filteredData and sortedData are left as they were and the
\* error indicator is shown.
C21_FailedLoadKeepsData ==
    [][(dataFrom # "none" /\ FailureStep) => (DataKept /\ errorHidden' = FALSE)]_vars

\* C21, amended: when loadDisasterData fails after a dataset that is not empty
\* has been loaded, the call leaves disasterEvents, filteredData and sortedData
\* as they were and the error indicator is shown.
C21_FailedLoadKeepsNonEmptyData ==
    [][(disasterEvents # <<>> /\ FailureStep) => (DataKept /\ errorHidden' = FALSE)]_vars

\* a reload has failed over a loaded, sorted dataset
C21_Witness ==
    /\ pc = "idle"
    /\ ~errorHidden
    /\ dataFrom = "load"
    /\ Len(disasterEvents) = 2
    /\ currentSort.direction = "desc"
    /\ sortedData # filteredData

(***************************************************************************)
(* Properties of the clusters themselves                                   *)
(***************************************************************************)
\* C22: every member of every cluster of the risk pass (radius 0.5 degree,
\* announced as "within 55 km") is at distance <= the radius from the final
\* centroid of its cluster, the centre the alert reports.  Stated for events
\* on one meridian.
C22_MembersWithinRadius ==
    OnOneMeridian(filteredData) =>
        \A j \in 1..Len(riskPassClusters) : \A i \in 1..Len(riskPassClusters[j]) :
            MeanInRange(filteredData, riskPassClusters[j][i], riskPassClusters[j],
                        RiskClusterRadius)

\* an alert is shown for a cluster one of whose events is out of the radius
\* of the reported centre
C22_AlertWithFarMember ==
    /\ AlertShown
    /\ OnOneMeridian(filteredData)
    /\ \E j \in Qualifying : \E i \in 1..Len(riskPassClusters[j]) :
          /\ MessageIsOf(j)
          /\ ~MeanInRange(filteredData, riskPassClusters[j][i], riskPassClusters[j],
                          RiskClusterRadius)

(***************************************************************************)
(* Properties of the merge as a whole                                      *)
(***************************************************************************)
HasId(events, id) == \E k \in 1..Len(events) : events[k].event_id = id
HasKey(events, key) == \E k \in 1..Len(events) : ContentKey(events[k]) = key

\* C23 as stated: every record of the combined input whose normalized title
\* is not blank is represented in the merge output by a record with the same
\* event_id or with the same content key.
C23_NoEventLost ==
    Merged =>
        \A i \in 1..Len(allEvents) :
            Trim(NormTitle(allEvents[i].event_title)) # <<>> =>
                \/ HasId(deduped, allEvents[i].event_id)
                \/ HasKey(deduped, ContentKey(allEvents[i]))

\* C23, amended: every record of the combined input that has a non-blank
\* event_id, and for whose event_id the identity pass kept a record with a
\* non-empty normalized title, is represented in the merge output by a record
\* with the same event_id or with the content key of that kept record.
C23_NoIdentifiedEventLost ==
    Merged =>
        \A i \in 1..Len(allEvents) :
            (/\ ValidId(allEvents[i].event_id)
             /\ NormTitle(MapGet(eventMap, allEvents[i].event_id).event_title) # <<>>) =>
                \/ HasId(deduped, allEvents[i].event_id)
                \/ HasKey(deduped, ContentKey(MapGet(eventMap, allEvents[i].event_id)))

\* a record is represented only by the content key of the record kept for its
\* event_id: no output record carries its event_id or its own content key
C23_Witness ==
    /\ Merged
    /\ \E i \in 1..Len(allEvents) :
          /\ ValidId(allEvents[i].event_id)
          /\ NormTitle(allEvents[i].event_title) # <<>>
          /\ NormTitle(MapGet(eventMap, allEvents[i].event_id).event_title) # <<>>
          /\ ~HasId(deduped, allEvents[i].event_id)
          /\ ~HasKey(deduped, ContentKey(allEvents[i]))
          /\ HasKey(deduped, ContentKey(MapGet(eventMap, allEvents[i].event_id)))

RECURSIVE SumOfSizes(_)
SumOfSizes(clusters) ==
    IF clusters = <<>> THEN 0 ELSE Len(Head(clusters)) + SumOfSizes(Tail(clusters))

\* every position of todo is a member of exactly one cluster, exactly once
PartitionOf(todo, clusters) ==
    /\ \A j \in 1..Len(clusters) : clusters[j] # <<>>
    /\ \A t \in 1..Len(todo) :
          Cardinality({p \in {<<j, i>> : j \in 1..Len(clusters), i \in 1..Len(todo)} :
                          /\ p[2] <= Len(clusters[p[1]])
                          /\ clusters[p[1]][p[2]] = todo[t]}) = 1
    /\ SumOfSizes(clusters) = Len(todo)

\* C24: the clusters of a greedy pass partition its input: every input event
\* is a member of exactly one cluster, no cluster is empty, and the sizes sum
\* to the number of input events; for the statistics pass over filteredData,
\* the risk pass over the recent events, and for other radii on short inputs
\* in every order.
C24_ClustersPartitionInput ==
    /\ PartitionOf(Indices(Len(filteredData)), statsClusters)
    /\ PartitionOf(RecentIndices(filteredData), riskPassClusters)
    /\ Len(filteredData) <= MaxChain + 1 =>
          \A r \in Radii :
              PartitionOf(Indices(Len(filteredData)),
                          GreedyClusters(filteredData, Indices(Len(filteredData)), r))

\* several clusters, one with several members, and an event without valid
\* coordinates among the clustered events
C24_Witness ==
    /\ Len(statsClusters) >= 2
    /\ \E j \in 1..Len(statsClusters) : Len(statsClusters[j]) >= 2
    /\ \E k \in 1..Len(filteredData) : ~filteredData[k].hasValidCoords
    /\ Len(riskPassClusters) >= 2

(***************************************************************************)
(* Properties of overlapping loads                                         *)
(***************************************************************************)
\* C25: once all overlapping calls of loadDisasterData have completed, the
\* data shown is the data fetched by the call that started last: when that
\* call succeeded, disasterEvents is what it made of its events.json.
C25_LastStartedWins ==
    (/\ calls # <<>>
     /\ \A i \in 1..Len(calls) : calls[i].pc \in {"done", "failed"}
     /\ calls[Len(calls)].pc = "done") =>
        disasterEvents = Preprocess(calls[Len(calls)].deduped)

\* both calls succeeded, the later one fetched the newer events.json, and
\* the page shows what the earlier one fetched
C25_StaleDataShown ==
    /\ Len(calls) = 2
    /\ calls[1].pc = "done" /\ calls[2].pc = "done"
    /\ calls[1].mainData = OverlapVersions[1]
    /\ calls[2].mainData = OverlapVersions[2]
    /\ disasterEvents = Preprocess(calls[1].deduped)
    /\ disasterEvents # Preprocess(calls[2].deduped)

(***************************************************************************)
(* Properties of the default view                                          *)
(***************************************************************************)
\* a load has succeeded, no load is in flight and no filter was chosen
DefaultViewAfterLoad ==
    /\ dataFrom = "load"
    /\ pc = "idle"
    /\ categoryFilter = ""
    /\ sliderValue = 100
    /\ currentSort = NoSort

\* C26: after a successful load with no user-chosen filter (slider at 100,
\* no category, the date inputs holding the defaults of populateFilters)
\* filteredData contains every event of disasterEvents.
C26_DefaultViewShowsAll ==
    DefaultViewAfterLoad => filteredData = disasterEvents

\* an event whose date did not parse was stamped with the instant of the load
\* and the default end date leaves it out of the view
C26_DefaultViewDropsEvent ==
    /\ DefaultViewAfterLoad
    /\ endDateCutsNow
    /\ Len(filteredData) < Len(disasterEvents)
    /\ \E i \in 1..Len(disasterEvents) :
          /\ Unparseable(disasterEvents[i].event_date_utc)
          /\ \A j \in 1..Len(filteredData) : filteredData[j] # disasterEvents[i]

(***************************************************************************)
(* Properties of the table                                                 *)
(***************************************************************************)
\* the number of positions of s that hold e
Occurrences(s, e) == Cardinality({i \in 1..Len(s) : s[i] = e})

IsPermutation(s, t) ==
    /\ Len(s) = Len(t)
    /\ \A i \in 1..Len(s) : Occurrences(s, s[i]) = Occurrences(t, s[i])

\* no element of s stands before one that the comparator puts first
OrderedBy(s, sort) ==
    \A i, j \in 1..Len(s) : i < j => Comparison(s[i], s[j], sort) <= 0

SortedPermutation == IsPermutation(sortedData, filteredData)

FilteredFromEvents ==
    \A i \in 1..Len(filteredData) : \E j \in 1..Len(disasterEvents) :
        filteredData[i] = disasterEvents[j]

SortedInOrder == currentSort # NoSort => OrderedBy(sortedData, currentSort)

TableInvariant == SortedPermutation /\ FilteredFromEvents /\ SortedInOrder

AllDatesValid == \A i \in 1..Len(disasterEvents) : disasterEvents[i].event_date.kind = "num"

\* a step that changes the view and is not an initializeData that
\* populateFilters ended with a RangeError
CompletedViewOperation ==
    /\ <<disasterEvents, filteredData, sortedData, currentSort>>' #
          <<disasterEvents, filteredData, sortedData, currentSort>>
    /\ ~(pc' # pc /\ ~AllDatesValid')

\* C27: after every completed operation that changes the view sortedData is
\* a permutation of filteredData, filteredData holds only events of
\* disasterEvents, and sortedData is ordered by the column and direction of
\* currentSort when one is set.
C27_TableInvariant == [][CompletedViewOperation => TableInvariant']_vars

\* the table is sorted by date, ascending or descending, no load is in
\* flight, and two events with valid dates stand in the wrong order
C27_SortedByDateOutOfOrder ==
    /\ pc = "idle"
    /\ currentSort.column = "event_date"
    /\ SortedPermutation
    /\ \E i, j \in 1..Len(sortedData) :
          /\ i < j
          /\ sortedData[i].event_date.kind = "num"
          /\ sortedData[j].event_date.kind = "num"
          /\ Comparison(sortedData[i], sortedData[j], currentSort) > 0

\* with valid dates only, the table invariant holds after every step
TableInvariantWithValidDates == AllDatesValid => TableInvariant

\* C30: sortTable on the column already sorted goes from ascending to
\* descending and from descending to unsorted, sortTable on any other column
\* (or from the unsorted state) starts ascending on that column, and in the
\* unsorted state currentSort is {column: null, direction: null} and
\* sortedData is filteredData in its order.
C30_SortCycle ==
    [][/\ \A column \in SortColumns : SortTable(column) =>
            /\ (currentSort = [column |-> column, direction |-> "asc"]) =>
                   currentSort' = [column |-> column, direction |-> "desc"]
            /\ (currentSort = [column |-> column, direction |-> "desc"]) =>
                   currentSort' = NoSort
            /\ (currentSort.column # column) =>
                   currentSort' = [column |-> column, direction |-> "asc"]
       /\ (currentSort'.column = "null" \/ currentSort'.direction = "null") =>
            (currentSort' = NoSort /\ sortedData' = filteredData')]_vars

\* the second click on a column: the table is in descending order, which is
\* not the order of filteredData
C30_Witness ==
    /\ currentSort.direction = "desc"
    /\ Len(sortedData) >= 2
    /\ sortedData # filteredData
    /\ OrderedBy(sortedData, currentSort)

(***************************************************************************)
(* Properties of the playback                                              *)
(***************************************************************************)
\* C28: under any sequence of toggles, Escape and space key presses, speed
\* changes and timer ticks, isPlaying is true exactly when an animation
\* interval timer is active, and at most one such timer is active.
C28_OneTimerWhilePlaying ==
    /\ isPlaying <=> timers # {}
    /\ Cardinality(timers) <= 1
    /\ isPlaying => timers = {animationInterval}

\* a speed change restarted a running playback: the handle changed and the
\* one active timer is the new one
C28_Witness ==
    /\ isPlaying
    /\ animationSpeed # 700
    /\ animationInterval = 2
    /\ timers = {2}

\* a step of a running playback: the index grows by 5; up to 100 the slider
\* takes the index and the playback goes on, above 100 the timer is cleared,
\* isPlaying is reset and the slider stays at 100
PlaybackStep ==
    isPlaying =>
        /\ currentTimeIndex' = currentTimeIndex + TickStep
        /\ IF currentTimeIndex' <= SliderMax
           THEN isPlaying' /\ sliderValue' = currentTimeIndex'
           ELSE /\ currentTimeIndex = SliderMax
                /\ sliderValue' = SliderMax
                /\ ~isPlaying'
                /\ timers' = {}

\* C29: a started playback terminates when the user does not act: it starts
\* at index 0, every tick moves the slider by 5 (5, 10, ..., 100, never above
\* 100), the slider reaches 100, and the tick after that clears the timer and
\* resets isPlaying.
C29_PlaybackTerminates ==
    /\ [][(~isPlaying /\ isPlaying') => currentTimeIndex' = 0]_vars
    /\ [][PlaybackStep]_vars
    /\ (isPlaying /\ currentTimeIndex = 0) ~> (isPlaying /\ sliderValue = SliderMax)
    /\ isPlaying ~> (~isPlaying /\ timers = {})

\* a playback has run to its end
C29_Witness ==
    /\ ~isPlaying
    /\ timers = {}
    /\ animationInterval # 0
    /\ currentTimeIndex = SliderMax + TickStep
    /\ sliderValue = SliderMax

====
